---------------------------- MODULE Spec2Model ----------------------------
(***************************************************************************)
(* Model of the sveltia-github-auth Cloudflare Worker (src/src/index.js):  *)
(* the router (fetch), the authorization initiator (handleAuth), the       *)
(* callback handler (handleCallback) and the response renderer             *)
(* (outputHTML).                                                           *)
(*                                                                         *)
(* JavaScript strings are sequences of one-character strings, so that the  *)
(* regular expressions, the escaping, the URL encoding and JSON.stringify  *)
(* are computed character by character as the code computes them.          *)
(* `undefined` is the one-element sequence Undefined, which is no string   *)
(* of characters.                                                          *)
(***************************************************************************)
EXTENDS Integers, Sequences, FiniteSets, TLC

VARIABLES
    env,        \* the Worker's environment variables (configuration)
    req,        \* slot -> the request being handled (NoRequest when idle)
    pc,         \* slot -> "idle" | "fetch" | "json" | "done"
    uuid,       \* slot -> what crypto.randomUUID() returned to handleAuth
    outbound,   \* slot -> the outbound requests the handler has issued
    provider,   \* slot -> what the provider call gave the handler
    resp,       \* slot -> the Response returned (NoResponse until done)
    mStr,       \* matcher check: one entry of ALLOWED_DOMAINS
    mDomain,    \* matcher check: the site_id domain
    mPc,        \* matcher check: "input" | "matched"
    mResult,    \* matcher check: whether the entry matched the domain
    jar,        \* browser: the value of its csrf-token cookie (NoCookie when none)
    win,        \* browser: popup -> where the popup window is in its login attempt
    minted,     \* browser: the UUIDs crypto.randomUUID() has given so far
    stored,     \* browser: the csrf-token values its cookie jar has held so far
    old,        \* browser: minted and stored when it last applied a page
    page,       \* popup script: the Response whose HTML the popup has loaded
    opener,     \* popup script: the origin of window.opener (NoOpener when null)
    script,     \* popup script: "loaded" | "listening" | "failed"
    events,     \* popup script: the message events dispatched to the window
    posted      \* popup script: the postMessage calls made on window.opener

vars ==
    <<env, req, pc, uuid, outbound, provider, resp, mStr, mDomain, mPc, mResult,
      jar, win, minted, stored, old, page, opener, script, events, posted>>
workerVars == <<env, req, pc, uuid, outbound, provider, resp>>
matchVars == <<mStr, mDomain, mPc, mResult>>
browserVars == <<jar, win, minted, stored, old>>
popupVars == <<page, opener, script, events, posted>>

----------------------------------------------------------------------------
(* Bounds of the model. *)

\* Request slots handled concurrently in ConcSpec.
MaxReq == 2
\* Longest ALLOWED_DOMAINS entry drawn in MatchSpec.
MaxPatLen == 3
\* Longest site_id domain drawn in MatchSpec.
MaxDomLen == 5
\* Message events dispatched to a popup page in PopupSpec.
MaxEvents == 2

----------------------------------------------------------------------------
(* JavaScript values and string primitives. *)

Undefined == <<"undefined">>

\* !!v for a string or undefined
Truthy(v) == v # Undefined /\ v # <<>>

\* a ?? b
Nullish(a, b) == IF a = Undefined THEN b ELSE a

\* All strings over `chars` of length at most n.
Strings(chars, n) == UNION {[1..k -> chars] : k \in 0..n}

RECURSIVE Cat(_)
\* Template-literal / + concatenation of a sequence of strings.
Cat(parts) == IF parts = <<>> THEN <<>> ELSE Head(parts) \o Cat(Tail(parts))

StartsWithAt(s, i, p) ==
    /\ i >= 1
    /\ i + Len(p) - 1 <= Len(s)
    /\ SubSeq(s, i, i + Len(p) - 1) = p

\* String.prototype.indexOf, 1-based; 0 when absent.
IndexOf(s, p) ==
    IF \E i \in 1..(Len(s) + 1) : StartsWithAt(s, i, p)
    THEN CHOOSE i \in 1..(Len(s) + 1) :
            /\ StartsWithAt(s, i, p)
            /\ \A j \in 1..(i - 1) : ~StartsWithAt(s, j, p)
    ELSE 0

\* String.prototype.replace with a string pattern: the first occurrence only.
replace(s, p, r) ==
    LET i == IndexOf(s, p)
    IN  IF i = 0 THEN s
        ELSE SubSeq(s, 1, i - 1) \o r \o SubSeq(s, i + Len(p), Len(s))

RECURSIVE replaceAll(_, _, _)
\* String.prototype.replaceAll with a non-empty string pattern.
replaceAll(s, p, r) ==
    LET i == IndexOf(s, p)
    IN  IF i = 0 THEN s
        ELSE SubSeq(s, 1, i - 1) \o r \o replaceAll(SubSeq(s, i + Len(p), Len(s)), p, r)

WhiteSpace == {" ", "\t", "\n", "\r"}

RECURSIVE trimStart(_)
trimStart(s) == IF s # <<>> /\ Head(s) \in WhiteSpace THEN trimStart(Tail(s)) ELSE s

RECURSIVE trimEnd(_)
trimEnd(s) ==
    IF s # <<>> /\ s[Len(s)] \in WhiteSpace THEN trimEnd(SubSeq(s, 1, Len(s) - 1)) ELSE s

\* String.prototype.trim
trim(s) == trimEnd(trimStart(s))

RECURSIVE split(_, _)
\* String.prototype.split on a one-character separator (the code's /,/).
split(s, sep) ==
    LET i == IndexOf(s, <<sep>>)
    IN  IF i = 0 THEN <<s>>
        ELSE <<SubSeq(s, 1, i - 1)>> \o split(SubSeq(s, i + 1, Len(s)), sep)

----------------------------------------------------------------------------
(* Regular expressions: a compiled expression is a sequence of tokens      *)
(* [t, c, plus]; t is "char" (the character c), "any" (.), "hex"           *)
(* ([0-9a-f]), "wordb" (\b), "bol" (^) or "eol" ($); plus is the +         *)
(* quantifier on the token.                                                *)

LineTerminators == {"\n", "\r"}
HexDigits == {"0","1","2","3","4","5","6","7","8","9","a","b","c","d","e","f"}
WordChars ==
    {"0","1","2","3","4","5","6","7","8","9","_",
     "a","b","c","d","e","f","g","h","i","j","k","l","m",
     "n","o","p","q","r","s","t","u","v","w","x","y","z",
     "A","B","C","D","E","F","G","H","I","J","K","L","M",
     "N","O","P","Q","R","S","T","U","V","W","X","Y","Z"}

Tok(t, c, plus) == [t |-> t, c |-> c, plus |-> plus]

RECURSIVE CompileFrom(_, _, _)
\* new RegExp(src) for the syntax the allow-list patterns can hold: `\b` is the
\* word boundary, any other `\x` the character x, `.` any character but a line
\* terminator, `^` and `$` the anchors, `+` quantifies the token before it.
CompileFrom(src, i, acc) ==
    IF i > Len(src) THEN acc
    ELSE IF src[i] = "\\" /\ i < Len(src) /\ src[i + 1] = "b"
        THEN CompileFrom(src, i + 2, Append(acc, Tok("wordb", "b", FALSE)))
    ELSE IF src[i] = "\\" /\ i < Len(src)
        THEN CompileFrom(src, i + 2, Append(acc, Tok("char", src[i + 1], FALSE)))
    ELSE IF src[i] = "."
        THEN CompileFrom(src, i + 1, Append(acc, Tok("any", ".", FALSE)))
    ELSE IF src[i] = "^"
        THEN CompileFrom(src, i + 1, Append(acc, Tok("bol", "^", FALSE)))
    ELSE IF src[i] = "$"
        THEN CompileFrom(src, i + 1, Append(acc, Tok("eol", "$", FALSE)))
    ELSE IF src[i] = "+" /\ acc # <<>>
        THEN CompileFrom(src, i + 1,
                [acc EXCEPT ![Len(acc)] = Tok(acc[Len(acc)].t, acc[Len(acc)].c, TRUE)])
    ELSE CompileFrom(src, i + 1, Append(acc, Tok("char", src[i], FALSE)))

RegExp(src) == CompileFrom(src, 1, <<>>)

IsWordAt(s, k) == k >= 1 /\ k <= Len(s) /\ s[k] \in WordChars

\* The positions after one application of tok from a position of P.
StepOnce(tok, s, P) ==
    CASE tok.t = "char" -> {p + 1 : p \in {q \in P : q <= Len(s) /\ s[q] = tok.c}}
      [] tok.t = "any"  -> {p + 1 : p \in {q \in P : q <= Len(s) /\ s[q] \notin LineTerminators}}
      [] tok.t = "hex"  -> {p + 1 : p \in {q \in P : q <= Len(s) /\ s[q] \in HexDigits}}
      [] tok.t = "bol"  -> {p \in P : p = 1}
      [] tok.t = "eol"  -> {p \in P : p = Len(s) + 1}
      [] tok.t = "wordb" -> {p \in P : IsWordAt(s, p - 1) # IsWordAt(s, p)}

RECURSIVE StepPlus(_, _, _)
\* One or more applications of tok.
StepPlus(tok, s, Q) ==
    IF Q = {} THEN {} ELSE Q \cup StepPlus(tok, s, StepOnce(tok, s, Q) \ Q)

StepTok(tok, s, P) ==
    IF tok.plus THEN StepPlus(tok, s, StepOnce(tok, s, P)) ELSE StepOnce(tok, s, P)

RECURSIVE RunFrom(_, _, _, _)
\* The positions where a match of re[k..] that starts in P can end.
RunFrom(re, k, s, P) ==
    IF k > Len(re) \/ P = {} THEN P ELSE RunFrom(re, k + 1, s, StepTok(re[k], s, P))

MatchesAt(re, s, i) == RunFrom(re, 1, s, {i}) # {}

\* String.prototype.match without the g flag: the index (1-based) where the
\* leftmost match starts, 0 for null.
match(s, re) ==
    IF \E i \in 1..(Len(s) + 1) : MatchesAt(re, s, i)
    THEN CHOOSE i \in 1..(Len(s) + 1) :
            /\ MatchesAt(re, s, i)
            /\ \A j \in 1..(i - 1) : ~MatchesAt(re, s, j)
    ELSE 0

----------------------------------------------------------------------------
(* The allow-list matcher of handleAuth. *)

RegExpSpecials == {".", "*", "+", "?", "^", "$", "{", "}", "(", ")", "|", "[", "]", "\\"}

RECURSIVE escapeRegExp_dotUnescaped(_)
\* Mutant: the dot is missing from the character class.
escapeRegExp_dotUnescaped(str) ==
    IF str = <<>> THEN <<>>
    ELSE (IF Head(str) \in RegExpSpecials \ {"."} THEN <<"\\", Head(str)>>
          ELSE <<Head(str)>>) \o escapeRegExp_dotUnescaped(Tail(str))

RECURSIVE escapeRegExp(_)
\* str.replace(/[.*+?^${}()|[\]\\]/g, '\\$&')
escapeRegExp(str) ==
    IF str = <<>> THEN <<>>
    ELSE (IF Head(str) \in RegExpSpecials THEN <<"\\", Head(str)>> ELSE <<Head(str)>>)
            \o escapeRegExp(Tail(str))

\* `^${escapeRegExp(str.trim()).replace('\\*', '.+')}$`
AllowedPattern(str) ==
    Cat(<< <<"^">>, replace(escapeRegExp(trim(str)), <<"\\", "*">>, <<".", "+">>), <<"$">> >>)

\* (domain ?? '').match(new RegExp(...)) is not null
PatternMatches(str, domain) ==
    match(Nullish(domain, <<>>), RegExp(AllowedPattern(str))) # 0

\* ALLOWED_DOMAINS.split(/,/).some((str) => ...)
SomePatternMatches(allowed, domain) ==
    LET strs == split(allowed, ",")
    IN  \E k \in 1..Len(strs) : PatternMatches(strs[k], domain)

\* Mutant: every pattern must match (`every` for `some`).
DomainRefused_every(allowed, domain) ==
    /\ Truthy(allowed)
    /\ LET strs == split(allowed, ",")
       IN  ~\A k \in 1..Len(strs) : PatternMatches(strs[k], domain)

\* The condition of the `if` at lines 74-80: the domain is refused.
DomainRefused(allowed, domain) ==
    Truthy(allowed) /\ ~SomePatternMatches(allowed, domain)

----------------------------------------------------------------------------
(* String literals of the source, character by character. *)

\* 'github'
Str_github ==
    <<"g","i","t","h","u","b">>

\* 'github.com'
Str_github_com ==
    <<"g","i","t","h","u","b",".","c","o","m">>

\* 'https://'
Str_https ==
    <<"h","t","t","p","s",":","/","/">>

\* '/login/oauth/authorize?'
Str_authorize_path ==
    <<"/","l","o","g","i","n","/","o","a","u","t","h","/","a","u","t","h","o","r","i","z","e",
    "?">>

\* '/login/oauth/access_token'
Str_access_token_path ==
    <<"/","l","o","g","i","n","/","o","a","u","t","h","/","a","c","c","e","s","s","_","t","o",
    "k","e","n">>

\* 'client_id'
Str_client_id ==
    <<"c","l","i","e","n","t","_","i","d">>

\* 'client_secret'
Str_client_secret ==
    <<"c","l","i","e","n","t","_","s","e","c","r","e","t">>

\* 'code'
Str_code ==
    <<"c","o","d","e">>

\* 'scope'
Str_scope ==
    <<"s","c","o","p","e">>

\* 'repo,user'
Str_repo_user ==
    <<"r","e","p","o",",","u","s","e","r">>

\* 'state'
Str_state ==
    <<"s","t","a","t","e">>

\* 'site_id'
Str_site_id ==
    <<"s","i","t","e","_","i","d">>

\* 'provider'
Str_provider ==
    <<"p","r","o","v","i","d","e","r">>

\* 'token'
Str_token ==
    <<"t","o","k","e","n">>

\* 'error'
Str_error ==
    <<"e","r","r","o","r">>

\* 'errorCode'
Str_errorCode ==
    <<"e","r","r","o","r","C","o","d","e">>

\* 'success'
Str_success ==
    <<"s","u","c","c","e","s","s">>

\* 'authorizing:'
Str_authorizing ==
    <<"a","u","t","h","o","r","i","z","i","n","g",":">>

\* 'authorization:'
Str_authorization ==
    <<"a","u","t","h","o","r","i","z","a","t","i","o","n",":">>

\* 'deleted'
Str_deleted ==
    <<"d","e","l","e","t","e","d">>

\* 'text/html;charset=UTF-8'
Str_text_html ==
    <<"t","e","x","t","/","h","t","m","l",";","c","h","a","r","s","e","t","=","U","T","F","-",
    "8">>

\* 'application/json'
Str_application_json ==
    <<"a","p","p","l","i","c","a","t","i","o","n","/","j","s","o","n">>

\* 'Your domain is not allowed to use the authenticator.'
Msg_UNSUPPORTED_DOMAIN ==
    <<"Y","o","u","r"," ","d","o","m","a","i","n"," ","i","s"," ","n","o","t"," ","a","l","l",
    "o","w","e","d"," ","t","o"," ","u","s","e"," ","t","h","e"," ","a","u","t","h","e","n","t",
    "i","c","a","t","o","r",".">>

\* 'OAuth app client ID or secret is not configured.'
Msg_MISCONFIGURED_CLIENT ==
    <<"O","A","u","t","h"," ","a","p","p"," ","c","l","i","e","n","t"," ","I","D"," ","o","r",
    " ","s","e","c","r","e","t"," ","i","s"," ","n","o","t"," ","c","o","n","f","i","g","u","r",
    "e","d",".">>

\* 'Failed to receive an authorization code. Please try again later.'
Msg_AUTH_CODE_REQUEST_FAILED ==
    <<"F","a","i","l","e","d"," ","t","o"," ","r","e","c","e","i","v","e"," ","a","n"," ","a",
    "u","t","h","o","r","i","z","a","t","i","o","n"," ","c","o","d","e","."," ","P","l","e","a",
    "s","e"," ","t","r","y"," ","a","g","a","i","n"," ","l","a","t","e","r",".">>

\* 'Potential CSRF attack detected. Authentication flow aborted.'
Msg_CSRF_DETECTED ==
    <<"P","o","t","e","n","t","i","a","l"," ","C","S","R","F"," ","a","t","t","a","c","k"," ",
    "d","e","t","e","c","t","e","d","."," ","A","u","t","h","e","n","t","i","c","a","t","i","o",
    "n"," ","f","l","o","w"," ","a","b","o","r","t","e","d",".">>

\* 'Failed to request an access token. Please try again later.'
Msg_TOKEN_REQUEST_FAILED ==
    <<"F","a","i","l","e","d"," ","t","o"," ","r","e","q","u","e","s","t"," ","a","n"," ","a",
    "c","c","e","s","s"," ","t","o","k","e","n","."," ","P","l","e","a","s","e"," ","t","r","y",
    " ","a","g","a","i","n"," ","l","a","t","e","r",".">>

\* 'Server responded with malformed data. Please try again later.'
Msg_MALFORMED_RESPONSE ==
    <<"S","e","r","v","e","r"," ","r","e","s","p","o","n","d","e","d"," ","w","i","t","h"," ",
    "m","a","l","f","o","r","m","e","d"," ","d","a","t","a","."," ","P","l","e","a","s","e"," ",
    "t","r","y"," ","a","g","a","i","n"," ","l","a","t","e","r",".">>

\* 'UNSUPPORTED_DOMAIN'
Code_UNSUPPORTED_DOMAIN ==
    <<"U","N","S","U","P","P","O","R","T","E","D","_","D","O","M","A","I","N">>

\* 'MISCONFIGURED_CLIENT'
Code_MISCONFIGURED_CLIENT ==
    <<"M","I","S","C","O","N","F","I","G","U","R","E","D","_","C","L","I","E","N","T">>

\* 'AUTH_CODE_REQUEST_FAILED'
Code_AUTH_CODE_REQUEST_FAILED ==
    <<"A","U","T","H","_","C","O","D","E","_","R","E","Q","U","E","S","T","_","F","A","I","L",
    "E","D">>

\* 'CSRF_DETECTED'
Code_CSRF_DETECTED ==
    <<"C","S","R","F","_","D","E","T","E","C","T","E","D">>

\* 'TOKEN_REQUEST_FAILED'
Code_TOKEN_REQUEST_FAILED ==
    <<"T","O","K","E","N","_","R","E","Q","U","E","S","T","_","F","A","I","L","E","D">>

\* 'MALFORMED_RESPONSE'
Code_MALFORMED_RESPONSE ==
    <<"M","A","L","F","O","R","M","E","D","_","R","E","S","P","O","N","S","E">>

\* 'csrf-token=deleted; HttpOnly; Max-Age=0; Path=/; SameSite=Lax; Secure'
Str_cookie_deleted ==
    <<"c","s","r","f","-","t","o","k","e","n","=","d","e","l","e","t","e","d",";"," ","H","t",
    "t","p","O","n","l","y",";"," ","M","a","x","-","A","g","e","=","0",";"," ","P","a","t","h",
    "=","/",";"," ","S","a","m","e","S","i","t","e","=","L","a","x",";"," ","S","e","c","u","r",
    "e">>

\* 'csrf-token='
Str_cookie_prefix ==
    <<"c","s","r","f","-","t","o","k","e","n","=">>

\* '; HttpOnly; Path=/; Max-Age=600; SameSite=Lax; Secure'
Str_cookie_attrs ==
    <<";"," ","H","t","t","p","O","n","l","y",";"," ","P","a","t","h","=","/",";"," ","M","a",
    "x","-","A","g","e","=","6","0","0",";"," ","S","a","m","e","S","i","t","e","=","L","a","x",
    ";"," ","S","e","c","u","r","e">>

\* 'csrf-token='
Str_Cookie_regexp_name ==
    <<"c","s","r","f","-","t","o","k","e","n","=">>

----------------------------------------------------------------------------
(* Web platform primitives the handlers use. *)

\* Object.fromEntries(searchParams)[key]: the last pair with that key wins.
Param(searchParams, key) ==
    LET hits == {k \in 1..Len(searchParams) : searchParams[k][1] = key}
    IN  IF hits = {} THEN Undefined
        ELSE searchParams[CHOOSE k \in hits : \A j \in hits : j <= k][2]

\* Percent codes of the ASCII punctuation that application/x-www-form-urlencoded
\* escapes, for the characters the model's strings hold.
PercentCode ==
    [c \in {",", "/", ":", "=", "&", "?", "+", "%", "#", ";", "\"", "\\", "'", "{", "}"} |->
        CASE c = "," -> <<"%","2","C">> [] c = "/" -> <<"%","2","F">>
          [] c = ":" -> <<"%","3","A">> [] c = "=" -> <<"%","3","D">>
          [] c = "&" -> <<"%","2","6">> [] c = "?" -> <<"%","3","F">>
          [] c = "+" -> <<"%","2","B">> [] c = "%" -> <<"%","2","5">>
          [] c = "#" -> <<"%","2","3">> [] c = ";" -> <<"%","3","B">>
          [] c = "\"" -> <<"%","2","2">> [] c = "\\" -> <<"%","5","C">>
          [] c = "'" -> <<"%","2","7">> [] c = "{" -> <<"%","7","B">>
          [] c = "}" -> <<"%","7","D">>]

RECURSIVE formEncode(_)
\* The application/x-www-form-urlencoded byte serializer: alphanumerics and
\* * - . _ are kept, a space becomes +, the rest is percent-encoded.
formEncode(s) ==
    IF s = <<>> THEN <<>>
    ELSE (IF Head(s) \in WordChars \cup {"*", "-", "."} THEN <<Head(s)>>
          ELSE IF Head(s) = " " THEN <<"+">>
          ELSE PercentCode[Head(s)]) \o formEncode(Tail(s))

RECURSIVE URLSearchParams_toString(_)
\* new URLSearchParams({...}).toString() over the pairs in insertion order.
URLSearchParams_toString(pairs) ==
    IF pairs = <<>> THEN <<>>
    ELSE formEncode(pairs[1][1]) \o <<"=">> \o formEncode(pairs[1][2])
            \o (IF Len(pairs) > 1 THEN <<"&">> ELSE <<>>)
            \o URLSearchParams_toString(Tail(pairs))

RECURSIVE JSONQuote(_)
\* JSON.stringify's escaping inside a string.
JSONQuote(s) ==
    IF s = <<>> THEN <<>>
    ELSE (CASE Head(s) = "\"" -> <<"\\", "\"">>
            [] Head(s) = "\\" -> <<"\\", "\\">>
            [] Head(s) = "\n" -> <<"\\", "n">>
            [] Head(s) = "\r" -> <<"\\", "r">>
            [] Head(s) = "\t" -> <<"\\", "t">>
            [] OTHER -> <<Head(s)>>) \o JSONQuote(Tail(s))

RECURSIVE JSONMembers(_)
JSONMembers(pairs) ==
    IF pairs = <<>> THEN <<>>
    ELSE Cat(<< <<"\"">>, JSONQuote(pairs[1][1]), <<"\"", ":", "\"">>,
                JSONQuote(pairs[1][2]), <<"\"">>,
                IF Len(pairs) > 1 THEN <<",">> ELSE <<>>,
                JSONMembers(Tail(pairs)) >>)

\* JSON.stringify of an object of string properties, given as <<key, value>>
\* pairs in property order: an undefined property is left out.
JSON_stringify(pairs) ==
    Cat(<< <<"{">>,
           JSONMembers(SelectSeq(pairs, LAMBDA kv : kv[2] # Undefined)),
           <<"}">> >>)

----------------------------------------------------------------------------
(* Responses. *)

HTMLBody(listenFor, reply, announce) ==
    [html |-> TRUE, listenFor |-> listenFor, reply |-> reply, announce |-> announce]

\* The body ''.
EmptyBody == [html |-> FALSE, listenFor |-> <<>>, reply |-> <<>>, announce |-> <<>>]

Response(status, body, ContentType, Location, SetCookie) ==
    [status |-> status, body |-> body, ContentType |-> ContentType,
     Location |-> Location, SetCookie |-> SetCookie]

NoResponse == Response(0, EmptyBody, Undefined, Undefined, Undefined)

Args(token, error, errorCode) ==
    [provider |-> Undefined, token |-> token, error |-> error, errorCode |-> errorCode]

\* Mutant: the page leaves the cookie alone (no Set-Cookie header).
outputHTML_noSetCookie(args) ==
    LET prov == IF args.provider = Undefined THEN Str_github ELSE args.provider
        state == IF Truthy(args.error) THEN Str_error ELSE Str_success
        content ==
            IF Truthy(args.error)
            THEN << <<Str_provider, prov>>, <<Str_error, args.error>>,
                    <<Str_errorCode, args.errorCode>> >>
            ELSE << <<Str_provider, prov>>, <<Str_token, args.token>> >>
    IN  Response(200,
            HTMLBody(Str_authorizing \o prov,
                     Cat(<<Str_authorization, prov, <<":">>, state, <<":">>,
                           JSON_stringify(content)>>),
                     Str_authorizing \o prov),
            Str_text_html, Undefined, Undefined)

\* outputHTML({ provider = 'github', token, error, errorCode }): the HTML page is
\* kept as the three strings its script is built from: the message it waits
\* for, the message it answers with, and the message it posts first.
outputHTML(args) ==
    LET prov == IF args.provider = Undefined THEN Str_github ELSE args.provider
        state == IF Truthy(args.error) THEN Str_error ELSE Str_success
        content ==
            IF Truthy(args.error)
            THEN << <<Str_provider, prov>>, <<Str_error, args.error>>,
                    <<Str_errorCode, args.errorCode>> >>
            ELSE << <<Str_provider, prov>>, <<Str_token, args.token>> >>
    IN  Response(200,
            HTMLBody(Str_authorizing \o prov,
                     Cat(<<Str_authorization, prov, <<":">>, state, <<":">>,
                           JSON_stringify(content)>>),
                     Str_authorizing \o prov),
            Str_text_html, Undefined, Str_cookie_deleted)

----------------------------------------------------------------------------
(* handleAuth *)

GITHUB_HOSTNAME(e) ==
    IF e.GITHUB_HOSTNAME = Undefined THEN Str_github_com ELSE e.GITHUB_HOSTNAME

\* Mutant: `replace` for `replaceAll`, so only the first dash goes.
csrfTokenOf_firstDash(randomUUID) == replace(randomUUID, <<"-">>, <<>>)

\* globalThis.crypto.randomUUID().replaceAll('-', '')
csrfTokenOf(randomUUID) == replaceAll(randomUUID, <<"-">>, <<>>)

\* Mutant: the client secret is sent along in the authorization URL.
authURL_withSecret(e, csrfToken) ==
    Cat(<<Str_https, GITHUB_HOSTNAME(e), Str_authorize_path,
          URLSearchParams_toString(<< <<Str_client_id, e.GITHUB_CLIENT_ID>>,
                                      <<Str_client_secret, e.GITHUB_CLIENT_SECRET>>,
                                      <<Str_scope, Str_repo_user>>,
                                      <<Str_state, csrfToken>> >>)>>)

authURL(e, csrfToken) ==
    Cat(<<Str_https, GITHUB_HOSTNAME(e), Str_authorize_path,
          URLSearchParams_toString(<< <<Str_client_id, e.GITHUB_CLIENT_ID>>,
                                      <<Str_scope, Str_repo_user>>,
                                      <<Str_state, csrfToken>> >>)>>)

\* Mutant: the cookie is given the UUID as it came, dashes included.
handleAuth_cookieUUID(request, e, randomUUID) ==
    LET domain == Param(request.searchParams, Str_site_id)
        csrfToken == csrfTokenOf(randomUUID)
    IN  IF DomainRefused(e.ALLOWED_DOMAINS, domain)
        THEN outputHTML(Args(Undefined, Msg_UNSUPPORTED_DOMAIN, Code_UNSUPPORTED_DOMAIN))
        ELSE IF ~Truthy(e.GITHUB_CLIENT_ID) \/ ~Truthy(e.GITHUB_CLIENT_SECRET)
        THEN outputHTML(Args(Undefined, Msg_MISCONFIGURED_CLIENT, Code_MISCONFIGURED_CLIENT))
        ELSE Response(302, EmptyBody, Undefined, authURL(e, csrfToken),
                      Cat(<<Str_cookie_prefix, randomUUID, Str_cookie_attrs>>))

\* Mutant: the redirect goes out without the Set-Cookie header.
handleAuth_noCookie(request, e, randomUUID) ==
    LET domain == Param(request.searchParams, Str_site_id)
        csrfToken == csrfTokenOf(randomUUID)
    IN  IF DomainRefused(e.ALLOWED_DOMAINS, domain)
        THEN outputHTML(Args(Undefined, Msg_UNSUPPORTED_DOMAIN, Code_UNSUPPORTED_DOMAIN))
        ELSE IF ~Truthy(e.GITHUB_CLIENT_ID) \/ ~Truthy(e.GITHUB_CLIENT_SECRET)
        THEN outputHTML(Args(Undefined, Msg_MISCONFIGURED_CLIENT, Code_MISCONFIGURED_CLIENT))
        ELSE Response(302, EmptyBody, Undefined, authURL(e, csrfToken), Undefined)

handleAuth(request, e, randomUUID) ==
    LET domain == Param(request.searchParams, Str_site_id)
        csrfToken == csrfTokenOf(randomUUID)
    IN  IF DomainRefused(e.ALLOWED_DOMAINS, domain)
        THEN outputHTML(Args(Undefined, Msg_UNSUPPORTED_DOMAIN, Code_UNSUPPORTED_DOMAIN))
        ELSE IF ~Truthy(e.GITHUB_CLIENT_ID) \/ ~Truthy(e.GITHUB_CLIENT_SECRET)
        THEN outputHTML(Args(Undefined, Msg_MISCONFIGURED_CLIENT, Code_MISCONFIGURED_CLIENT))
        ELSE Response(302, EmptyBody, Undefined, authURL(e, csrfToken),
                      Cat(<<Str_cookie_prefix, csrfToken, Str_cookie_attrs>>))

----------------------------------------------------------------------------
(* handleCallback *)

\* The [0-9a-f]{32} of the cookie expression.
TokenLen == 32

\* /\bcsrf-token=([0-9a-f]{32})\b/
CsrfCookieRegExp ==
    Cat(<< <<Tok("wordb", "b", FALSE)>>,
           [i \in 1..Len(Str_Cookie_regexp_name) |->
                Tok("char", Str_Cookie_regexp_name[i], FALSE)],
           [i \in 1..TokenLen |-> Tok("hex", "0", FALSE)],
           <<Tok("wordb", "b", FALSE)>> >>)

\* const [, csrfToken] = headers.get('Cookie')?.match(...) ?? []
cookieToken(cookie) ==
    IF cookie = Undefined THEN Undefined
    ELSE LET i == match(cookie, CsrfCookieRegExp)
         IN  IF i = 0 THEN Undefined
             ELSE SubSeq(cookie, i + Len(Str_Cookie_regexp_name),
                         i + Len(Str_Cookie_regexp_name) + TokenLen - 1)

\* !code || !state
MissingCodeOrState(request) ==
    \/ ~Truthy(Param(request.searchParams, Str_code))
    \/ ~Truthy(Param(request.searchParams, Str_state))

\* Mutant: the comparison with state is dropped (only `!csrfToken`).
CsrfMismatch_presenceOnly(request) == ~Truthy(cookieToken(request.cookie))

\* Mutant: a missing cookie passes (`csrfToken && state !== csrfToken`).
CsrfMismatch_onlyWhenCookie(request) ==
    LET csrfToken == cookieToken(request.cookie)
    IN  Truthy(csrfToken) /\ Param(request.searchParams, Str_state) # csrfToken

\* Mutant: `&&` for `||`.
CsrfMismatch_and(request) ==
    LET csrfToken == cookieToken(request.cookie)
    IN  ~Truthy(csrfToken) /\ Param(request.searchParams, Str_state) # csrfToken

\* !csrfToken || state !== csrfToken
CsrfMismatch(request) ==
    LET csrfToken == cookieToken(request.cookie)
    IN  ~Truthy(csrfToken) \/ Param(request.searchParams, Str_state) # csrfToken

\* !GITHUB_CLIENT_ID || !GITHUB_CLIENT_SECRET
MissingCredentials(e) == ~Truthy(e.GITHUB_CLIENT_ID) \/ ~Truthy(e.GITHUB_CLIENT_SECRET)

\* The request the handler hands to fetch(tokenURL, {...}).
TokenRequest(request, e) ==
    [url |-> Cat(<<Str_https, GITHUB_HOSTNAME(e), Str_access_token_path>>),
     method |-> "POST",
     Accept |-> Str_application_json,
     ContentType |-> Str_application_json,
     body |-> JSON_stringify(<< <<Str_code, Param(request.searchParams, Str_code)>>,
                                <<Str_client_id, e.GITHUB_CLIENT_ID>>,
                                <<Str_client_secret, e.GITHUB_CLIENT_SECRET>> >>)]

\* Mutant: the CSRF check comes before the check of code and state.
handleCallbackChecks_csrfFirst(request, e) ==
    IF CsrfMismatch(request)
    THEN outputHTML(Args(Undefined, Msg_CSRF_DETECTED, Code_CSRF_DETECTED))
    ELSE IF MissingCodeOrState(request)
    THEN outputHTML(Args(Undefined, Msg_AUTH_CODE_REQUEST_FAILED,
                         Code_AUTH_CODE_REQUEST_FAILED))
    ELSE IF MissingCredentials(e)
    THEN outputHTML(Args(Undefined, Msg_MISCONFIGURED_CLIENT, Code_MISCONFIGURED_CLIENT))
    ELSE NoResponse

\* handleCallback up to its first await: the page it returns, or NoResponse
\* when it goes on to the token exchange.
handleCallbackChecks(request, e) ==
    IF MissingCodeOrState(request)
    THEN outputHTML(Args(Undefined, Msg_AUTH_CODE_REQUEST_FAILED,
                         Code_AUTH_CODE_REQUEST_FAILED))
    ELSE IF CsrfMismatch(request)
    THEN outputHTML(Args(Undefined, Msg_CSRF_DETECTED, Code_CSRF_DETECTED))
    ELSE IF MissingCredentials(e)
    THEN outputHTML(Args(Undefined, Msg_MISCONFIGURED_CLIENT, Code_MISCONFIGURED_CLIENT))
    ELSE NoResponse

\* What the provider call can give: fetch() rejects; or it resolves and
\* response.json() rejects (the body is no JSON), gives null, or gives an
\* object whose access_token and error are strings or missing.
NoProvider == [kind |-> "none", access_token |-> Undefined, error |-> Undefined]
Rejected == [kind |-> "rejected", access_token |-> Undefined, error |-> Undefined]
Resolved == [kind |-> "response", access_token |-> Undefined, error |-> Undefined]
InvalidJSON == [kind |-> "invalid", access_token |-> Undefined, error |-> Undefined]
NullJSON == [kind |-> "null", access_token |-> Undefined, error |-> Undefined]
ObjectJSON(access_token, error) ==
    [kind |-> "object", access_token |-> access_token, error |-> error]

\* if (!response) { ... TOKEN_REQUEST_FAILED }
tokenRequestFailed ==
    outputHTML(Args(Undefined, Msg_TOKEN_REQUEST_FAILED, Code_TOKEN_REQUEST_FAILED))

\* Mutant: the two destructured names are swapped.
handleCallbackResult_swapped(json) ==
    IF json.kind \in {"invalid", "null"}
    THEN outputHTML(Args(Undefined, Msg_MALFORMED_RESPONSE, Code_MALFORMED_RESPONSE))
    ELSE outputHTML(Args(json.error, json.access_token, Undefined))

\* ({ access_token: token, error } = await response.json()) and what follows:
\* destructuring null throws inside the try, like a body that is no JSON.
handleCallbackResult(json) ==
    IF json.kind \in {"invalid", "null"}
    THEN outputHTML(Args(Undefined, Msg_MALFORMED_RESPONSE, Code_MALFORMED_RESPONSE))
    ELSE outputHTML(Args(json.access_token, json.error, Undefined))

----------------------------------------------------------------------------
(* The inputs the model draws: configurations, requests, UUIDs, provider    *)
(* answers.                                                                 *)

Slots == 1..MaxReq

\* crypto.randomUUID(): a version-4 UUID, 36 characters with four dashes.
MakeUUID(c) ==
    [i \in 1..36 |-> IF i \in {9, 14, 19, 24} THEN "-"
                     ELSE IF i = 15 THEN "4"
                     ELSE IF i = 20 THEN "8" ELSE c]
UUIDs == {MakeUUID("a"), MakeUUID("7")}
NoUUID == Undefined

\* The 32 hex digits of MakeUUID(c), as a browser or an attacker sends them.
Hex32(c) == [i \in 1..32 |-> IF i = 13 THEN "4" ELSE IF i = 17 THEN "8" ELSE c]
TokenA == Hex32("a")
TokenB == Hex32("7")

ClientId == <<"I","v","1">>
Secret1 == <<"S","3","c">>
Secret2 == <<"K","9","x","y">>
Secrets == {Secret1, Secret2}
EnterpriseHost == <<"g","h","e",".","i","o">>

AllowLists ==
    { Undefined,
      <<>>,
      <<"a",".","i","o">>,
      <<"*",".","a",".","i","o">>,
      <<"b",".","i","o",","," ","*",".","a",".","i","o">> }

Credentials ==
    { <<ClientId, Secret1>>, <<ClientId, Secret2>>, <<Undefined, Secret1>>,
      <<ClientId, Undefined>>, <<ClientId, <<>> >> }

\* The repository id of the README's example (GITHUB_REPO_ID).
RepoId == <<"8","7","6","4","6","6","7","4","8">>

\* The environment variables the README documents.
Env(allowed, id, secret, hostname, repoId) ==
    [ALLOWED_DOMAINS |-> allowed, GITHUB_CLIENT_ID |-> id,
     GITHUB_CLIENT_SECRET |-> secret, GITHUB_HOSTNAME |-> hostname,
     GITHUB_REPO_ID |-> repoId]

Envs ==
    {Env(a, c[1], c[2], h, i) : a \in AllowLists, c \in Credentials,
                                h \in {Undefined, EnterpriseHost},
                                i \in {Undefined, RepoId}}

Request(method, pathname, searchParams, cookie) ==
    [method |-> method, pathname |-> pathname, searchParams |-> searchParams,
     cookie |-> cookie]
NoRequest == Request("", "", <<>>, Undefined)

SiteIds ==
    { Undefined,
      <<>>,
      <<"a",".","i","o">>,
      <<"w",".","a",".","i","o">>,
      <<"v",".","w",".","a",".","i","o">>,
      <<"b",".","i","o">> }

AuthRequests ==
    {Request("GET", p, IF d = Undefined THEN <<>> ELSE << <<Str_site_id, d>> >>, Undefined) :
        p \in {"/oauth", "/oauth/authorize"}, d \in SiteIds}

AuthCode == <<"c","1">>
Codes == {Undefined, <<>>, AuthCode}
States == {Undefined, <<>>, TokenA, TokenB}

CookieHeaders ==
    { Undefined,
      Str_cookie_prefix \o TokenA,
      Str_cookie_prefix \o TokenB,
      <<"t","=","1",";"," ">> \o Str_cookie_prefix \o TokenA,
      <<"x","-">> \o Str_cookie_prefix \o TokenB,
      <<"x">> \o Str_cookie_prefix \o TokenA,
      Str_cookie_prefix \o TokenA \o <<"0">>,
      Str_cookie_prefix \o Str_deleted }

Query(code, state) ==
    (IF code = Undefined THEN <<>> ELSE << <<Str_code, code>> >>)
        \o (IF state = Undefined THEN <<>> ELSE << <<Str_state, state>> >>)

CallbackRequests ==
    {Request("GET", p, Query(c, s), k) :
        p \in {"/callback", "/oauth/redirect"}, c \in Codes, s \in States,
        k \in CookieHeaders}

OtherRequests ==
    { Request("POST", "/oauth", <<>>, Undefined),
      Request("POST", "/callback", Query(AuthCode, TokenA), Str_cookie_prefix \o TokenA),
      Request("GET", "/", <<>>, Undefined),
      Request("GET", "/oauth/", <<>>, Undefined),
      Request("HEAD", "/oauth/authorize", <<>>, Undefined),
      Request("GET", "/oauth/redirect/", Query(AuthCode, TokenA), Str_cookie_prefix \o TokenA) }

AllRequests == AuthRequests \cup CallbackRequests \cup OtherRequests

AccessToken == <<"g","h","o","_","1">>
ProviderError ==
    <<"b","a","d","_","v","e","r","i","f","i","c","a","t","i","o","n","_","c","o","d","e">>
JSONBodies ==
    {InvalidJSON, NullJSON}
        \cup {ObjectJSON(t, e) : t \in {Undefined, <<>>, AccessToken},
                                 e \in {Undefined, <<>>, ProviderError}}

\* The concurrent specification: one configuration, duplicate deliveries of
\* one callback beside a forged one and a new authorization.
ConcEnvs == {Env(Undefined, ClientId, Secret1, Undefined, Undefined)}
ConcRequests ==
    {Request("GET", "/callback", Query(AuthCode, s), k) :
        s \in {TokenA, TokenB}, k \in {Undefined, Str_cookie_prefix \o TokenA}}
        \cup {Request("GET", "/oauth", <<>>, Undefined)}

----------------------------------------------------------------------------
(* The Worker. *)

\* Mutant: the method is not looked at.
Route_anyMethod(request) ==
    IF request.pathname \in {"/oauth", "/oauth/authorize"}
    THEN "handleAuth"
    ELSE IF request.pathname \in {"/callback", "/oauth/redirect"}
    THEN "handleCallback"
    ELSE "notFound"

\* The router of export default { fetch }.
Route(request) ==
    IF request.method = "GET" /\ request.pathname \in {"/oauth", "/oauth/authorize"}
    THEN "handleAuth"
    ELSE IF request.method = "GET" /\ request.pathname \in {"/callback", "/oauth/redirect"}
    THEN "handleCallback"
    ELSE "notFound"

\* new Response('', { status: 404 })
NotFound == Response(404, EmptyBody, Undefined, Undefined, Undefined)

Finish(r, response) ==
    /\ resp' = [resp EXCEPT ![r] = response]
    /\ pc' = [pc EXCEPT ![r] = "done"]

\* Mutant: a CSRF token is consumed by the first callback that passes with
\* it; a later callback with the same token is refused while that one is
\* being handled.
WorkerFetch_singleUse(r, request, randomUUID) ==
    /\ pc[r] = "idle"
    /\ req' = [req EXCEPT ![r] = request]
    /\ CASE Route(request) = "handleAuth" ->
            /\ uuid' = [uuid EXCEPT ![r] = randomUUID]
            /\ Finish(r, handleAuth(request, env, randomUUID))
            /\ UNCHANGED outbound
         [] Route(request) = "handleCallback" ->
            /\ UNCHANGED uuid
            /\ IF handleCallbackChecks(request, env) # NoResponse
               THEN /\ Finish(r, handleCallbackChecks(request, env))
                    /\ UNCHANGED outbound
               ELSE IF \E other \in Slots \ {r} :
                            /\ outbound[other] # <<>>
                            /\ cookieToken(req[other].cookie) = cookieToken(request.cookie)
               THEN /\ Finish(r, outputHTML(Args(Undefined, Msg_CSRF_DETECTED,
                                                 Code_CSRF_DETECTED)))
                    /\ UNCHANGED outbound
               ELSE /\ outbound' = [outbound EXCEPT
                                        ![r] = Append(@, TokenRequest(request, env))]
                    /\ pc' = [pc EXCEPT ![r] = "fetch"]
                    /\ UNCHANGED resp
         [] OTHER ->
            /\ Finish(r, NotFound)
            /\ UNCHANGED <<uuid, outbound>>
    /\ UNCHANGED <<env, provider>>
    /\ UNCHANGED <<matchVars, popupVars>>

\* fetch(request, env): the router, then the handler it picks, run up to the
\* handler's return or its first await.
WorkerFetch(r, request, randomUUID) ==
    /\ pc[r] = "idle"
    /\ req' = [req EXCEPT ![r] = request]
    /\ CASE Route(request) = "handleAuth" ->
            /\ uuid' = [uuid EXCEPT ![r] = randomUUID]
            /\ Finish(r, handleAuth(request, env, randomUUID))
            /\ UNCHANGED outbound
         [] Route(request) = "handleCallback" ->
            /\ UNCHANGED uuid
            /\ IF handleCallbackChecks(request, env) # NoResponse
               THEN /\ Finish(r, handleCallbackChecks(request, env))
                    /\ UNCHANGED outbound
               ELSE /\ outbound' = [outbound EXCEPT
                                        ![r] = Append(@, TokenRequest(request, env))]
                    /\ pc' = [pc EXCEPT ![r] = "fetch"]
                    /\ UNCHANGED resp
         [] OTHER ->
            /\ Finish(r, NotFound)
            /\ UNCHANGED <<uuid, outbound>>
    /\ UNCHANGED <<env, provider>>
    /\ UNCHANGED <<matchVars, popupVars>>

\* Mutant: a failed call is tried again before the handler gives up.
handleCallback_fetch_retry(r) ==
    /\ pc[r] = "fetch"
    /\ \E outcome \in {Rejected, Resolved} :
        /\ provider' = [provider EXCEPT ![r] = outcome]
        /\ IF outcome = Rejected /\ Len(outbound[r]) < 2
           THEN /\ outbound' = [outbound EXCEPT ![r] = Append(@, outbound[r][1])]
                /\ UNCHANGED <<pc, resp>>
           ELSE IF outcome = Rejected
           THEN Finish(r, tokenRequestFailed) /\ UNCHANGED outbound
           ELSE /\ pc' = [pc EXCEPT ![r] = "json"]
                /\ UNCHANGED <<resp, outbound>>
    /\ UNCHANGED <<env, req, uuid>>
    /\ UNCHANGED <<matchVars, browserVars, popupVars>>

\* The await of fetch(tokenURL, ...) ends: it threw (response stays
\* undefined) or it gave a response, and the handler goes on to await
\* response.json().
handleCallback_fetch(r) ==
    /\ pc[r] = "fetch"
    /\ \E outcome \in {Rejected, Resolved} :
        /\ provider' = [provider EXCEPT ![r] = outcome]
        /\ IF outcome = Rejected
           THEN Finish(r, tokenRequestFailed)
           ELSE /\ pc' = [pc EXCEPT ![r] = "json"]
                /\ UNCHANGED resp
    /\ UNCHANGED <<env, req, uuid, outbound>>
    /\ UNCHANGED <<matchVars, browserVars, popupVars>>

\* The page for each body the model draws, computed once.
handleCallbackResults == [json \in JSONBodies |-> handleCallbackResult(json)]

\* Mutant: no try around response.json(): a body that gives no object makes
\* the handler throw, and no Response is ever returned.
handleCallback_json_uncaught(r) ==
    /\ pc[r] = "json"
    /\ \E json \in JSONBodies :
        /\ provider' = [provider EXCEPT ![r] = json]
        /\ IF json.kind \in {"invalid", "null"}
           THEN /\ pc' = [pc EXCEPT ![r] = "thrown"]
                /\ UNCHANGED resp
           ELSE Finish(r, handleCallbackResults[json])
    /\ UNCHANGED <<env, req, uuid, outbound>>
    /\ UNCHANGED <<matchVars, browserVars, popupVars>>

\* The await of response.json() ends.
handleCallback_json(r) ==
    /\ pc[r] = "json"
    /\ \E json \in JSONBodies :
        /\ provider' = [provider EXCEPT ![r] = json]
        /\ Finish(r, handleCallbackResults[json])
    /\ UNCHANGED <<env, req, uuid, outbound>>
    /\ UNCHANGED <<matchVars, browserVars, popupVars>>

\* The runtime has sent the response: nothing of the request is kept, and
\* the slot is free for the next request.
Release(r) ==
    /\ pc[r] = "done"
    /\ pc' = [pc EXCEPT ![r] = "idle"]
    /\ req' = [req EXCEPT ![r] = NoRequest]
    /\ uuid' = [uuid EXCEPT ![r] = NoUUID]
    /\ outbound' = [outbound EXCEPT ![r] = <<>>]
    /\ provider' = [provider EXCEPT ![r] = NoProvider]
    /\ resp' = [resp EXCEPT ![r] = NoResponse]
    /\ UNCHANGED env

\* The response leaves the Worker, to a client the model does not follow.
Respond(r) ==
    /\ Release(r)
    /\ UNCHANGED <<matchVars, browserVars, popupVars>>

Receive(r, requests) ==
    /\ \E request \in requests, randomUUID \in UUIDs : WorkerFetch(r, request, randomUUID)
    /\ UNCHANGED browserVars

IdleWorker ==
    /\ req = [r \in Slots |-> NoRequest]
    /\ pc = [r \in Slots |-> "idle"]
    /\ uuid = [r \in Slots |-> NoUUID]
    /\ outbound = [r \in Slots |-> <<>>]
    /\ provider = [r \in Slots |-> NoProvider]
    /\ resp = [r \in Slots |-> NoResponse]

MatcherOff ==
    /\ mStr = <<>>
    /\ mDomain = <<>>
    /\ mPc = "off"
    /\ mResult = FALSE

\* No browser is followed.
BrowserOff ==
    /\ jar = Undefined
    /\ win = [w \in Slots |-> Undefined]
    /\ minted = {}
    /\ stored = {}
    /\ old = [minted |-> {}, stored |-> {}]

\* No popup page is followed.
PopupOff ==
    /\ page = NoResponse
    /\ opener = Undefined
    /\ script = "off"
    /\ events = <<>>
    /\ posted = <<>>

\* One request at a time, every configuration and every request drawn.
Init ==
    /\ env \in Envs
    /\ IdleWorker
    /\ MatcherOff
    /\ BrowserOff
    /\ PopupOff

Next ==
    \/ Receive(1, AllRequests)
    \/ handleCallback_fetch(1)
    \/ handleCallback_json(1)
    \/ Respond(1)

Spec == Init /\ [][Next]_vars

\* MaxReq requests in flight at once.
ConcInit ==
    /\ env \in ConcEnvs
    /\ IdleWorker
    /\ MatcherOff
    /\ BrowserOff
    /\ PopupOff

ConcNext ==
    \E r \in Slots :
        \/ Receive(r, ConcRequests)
        \/ handleCallback_fetch(r)
        \/ handleCallback_json(r)
        \/ Respond(r)

ConcSpec == ConcInit /\ [][ConcNext]_vars

\* The concurrent Worker when every provider call settles: an await that can
\* end does end. Nothing is assumed about new requests arriving.
LiveSpec ==
    /\ ConcInit
    /\ [][ConcNext]_vars
    /\ \A r \in Slots :
        /\ WF_vars(handleCallback_fetch(r))
        /\ WF_vars(handleCallback_json(r))

\* The allow-list matcher alone, on every short entry and domain.
PatChars == {"a", ".", "*", " "}
DomChars == {"a", ".", "*"}

MatchInit ==
    /\ env = Env(Undefined, Undefined, Undefined, Undefined, Undefined)
    /\ IdleWorker
    /\ mStr \in Strings(PatChars, MaxPatLen)
    /\ mDomain = <<>>
    /\ mPc = "input"
    /\ mResult = FALSE
    /\ BrowserOff
    /\ PopupOff

MatchDomain ==
    /\ mPc = "input"
    /\ \E d \in Strings(DomChars, MaxDomLen) :
        /\ mDomain' = d
        /\ mResult' = PatternMatches(mStr, d)
    /\ mPc' = "matched"
    /\ UNCHANGED mStr
    /\ UNCHANGED <<workerVars, browserVars, popupVars>>

MatchNext == MatchDomain

MatchSpec == MatchInit /\ [][MatchNext]_vars

----------------------------------------------------------------------------
(* The script of the page of outputHTML, run in the popup window. *)

\* The character at position i of the text of a string literal is escaped:
\* an odd number of backslashes stands right before it.
Escaped(text, i) ==
    LET n == CHOOSE k \in 0..(i - 1) :
                /\ \A j \in 1..k : text[i - j] = "\\"
                /\ k = i - 1 \/ text[i - k - 1] # "\\"
    IN  n % 2 = 1

\* The value of a single-quoted string literal of the script, given the text
\* between the quotes: a backslash makes the next character itself, but for
\* \n, \r and \t.
JSStringValue(text) ==
    LET kept == SelectSeq([i \in 1..Len(text) |-> i],
                          LAMBDA i : text[i] # "\\" \/ Escaped(text, i))
    IN  [k \in 1..Len(kept) |->
            IF ~Escaped(text, kept[k]) THEN text[kept[k]]
            ELSE CASE text[kept[k]] = "n" -> "\n"
                   [] text[kept[k]] = "r" -> "\r"
                   [] text[kept[k]] = "t" -> "\t"
                   [] OTHER -> text[kept[k]]]

\* The text put between the quotes of a literal ends it early: it holds a
\* quote or a line terminator that no backslash escapes, or its last
\* backslash escapes the closing quote.
EndsLiteral(text) ==
    \/ \E i \in 1..Len(text) :
            text[i] \in {"'"} \cup LineTerminators /\ ~Escaped(text, i)
    \/ text # <<>> /\ text[Len(text)] = "\\" /\ ~Escaped(text, Len(text))

\* The script element is the script of lines 32-42: none of the three
\* interpolated texts ends its literal early. (For the texts drawn here, what
\* follows an early end is no JavaScript, and the script does not compile.)
ScriptCompiles(response) ==
    /\ response.body.html
    /\ ~EndsLiteral(response.body.listenFor)
    /\ ~EndsLiteral(response.body.reply)
    /\ ~EndsLiteral(response.body.announce)

\* The target origin '*'.
Star == <<"*">>
NoOpener == Undefined
CmsOrigin == <<"h","t","t","p","s",":","/","/","c","m","s",".","i","o">>
OtherOrigin == <<"h","t","t","p","s",":","/","/","e","v","i","l",".","i","o">>
\* The origin of a message from a window with an opaque origin: no URL.
NullOrigin == <<"n","u","l","l">>
Origins == {CmsOrigin, OtherOrigin, NullOrigin}

\* postMessage(message, targetOrigin) throws for a target origin that is
\* neither '*' nor a URL.
ValidTargetOrigin(origin) == origin = Star \/ StartsWithAt(origin, 1, Str_https)

\* window.opener?.postMessage(message, targetOrigin), called while handling
\* the event numbered inReplyTo (0: outside the listener).
PostMessage(message, targetOrigin, inReplyTo) ==
    [data |-> message, targetOrigin |-> targetOrigin, inReplyTo |-> inReplyTo]

\* A provider error with an apostrophe in it.
QuoteError == <<"c","a","n","'","t">>

\* The pages the handlers return.
RendererPages ==
    {handleCallbackResult(json) : json \in JSONBodies \cup {ObjectJSON(Undefined, QuoteError)}}
        \cup {tokenRequestFailed,
              outputHTML(Args(Undefined, Msg_UNSUPPORTED_DOMAIN, Code_UNSUPPORTED_DOMAIN)),
              outputHTML(Args(Undefined, Msg_MISCONFIGURED_CLIENT, Code_MISCONFIGURED_CLIENT)),
              outputHTML(Args(Undefined, Msg_AUTH_CODE_REQUEST_FAILED,
                              Code_AUTH_CODE_REQUEST_FAILED)),
              outputHTML(Args(Undefined, Msg_CSRF_DETECTED, Code_CSRF_DETECTED))}

\* The data of the messages other windows send to the popup.
MessageData ==
    {Str_authorizing \o Str_github,
     Str_authorizing \o <<"g","i","t","l","a","b">>,
     Str_authorization \o Str_github}

\* The popup window receives one of the pages and loads it.
PopupLoad ==
    /\ script = "opened"
    /\ page' \in RendererPages
    /\ script' = "loaded"
    /\ UNCHANGED <<opener, events, posted>>
    /\ UNCHANGED <<workerVars, matchVars, browserVars>>

\* The script runs when the page has loaded: it registers the listener and
\* posts 'authorizing:<provider>' to the opener, for any origin.
PopupRunScript ==
    /\ script = "loaded"
    /\ IF ScriptCompiles(page)
       THEN /\ script' = "listening"
            /\ posted' = IF opener = NoOpener THEN posted
                         ELSE Append(posted,
                                PostMessage(JSStringValue(page.body.announce), Star, 0))
       ELSE /\ script' = "failed"
            /\ UNCHANGED posted
    /\ UNCHANGED <<page, opener, events>>
    /\ UNCHANGED <<workerVars, matchVars, browserVars>>

\* Mutant: the listener does not look at the data of the message.
PopupMessage_anyData(data, origin) ==
    /\ script \in {"listening", "failed"}
    /\ Len(events) < MaxEvents
    /\ events' = Append(events, [data |-> data, origin |-> origin])
    /\ IF /\ script = "listening"
          /\ opener # NoOpener
          /\ ValidTargetOrigin(origin)
       THEN posted' = Append(posted,
                        PostMessage(JSStringValue(page.body.reply), origin, Len(events) + 1))
       ELSE UNCHANGED posted
    /\ UNCHANGED <<page, opener, script>>
    /\ UNCHANGED <<workerVars, matchVars, browserVars>>

\* A message event is dispatched to the popup window: the listener, if the
\* script registered it, answers 'authorizing:<provider>' with the
\* authorization message, to the opener and for the origin of the event.
PopupMessage(data, origin) ==
    /\ script \in {"listening", "failed"}
    /\ Len(events) < MaxEvents
    /\ events' = Append(events, [data |-> data, origin |-> origin])
    /\ IF /\ script = "listening"
          /\ data = JSStringValue(page.body.listenFor)
          /\ opener # NoOpener
          /\ ValidTargetOrigin(origin)
       THEN posted' = Append(posted,
                        PostMessage(JSStringValue(page.body.reply), origin, Len(events) + 1))
       ELSE UNCHANGED posted
    /\ UNCHANGED <<page, opener, script>>
    /\ UNCHANGED <<workerVars, matchVars, browserVars>>

PopupReceive == \E data \in MessageData, origin \in Origins : PopupMessage(data, origin)

\* A popup opened by a window of some origin, or with no opener left, that
\* is about to receive one of the pages.
PopupInit ==
    /\ env = Env(Undefined, Undefined, Undefined, Undefined, Undefined)
    /\ IdleWorker
    /\ MatcherOff
    /\ BrowserOff
    /\ page = NoResponse
    /\ opener \in {NoOpener, CmsOrigin, OtherOrigin}
    /\ script = "opened"
    /\ events = <<>>
    /\ posted = <<>>

PopupNext ==
    \/ PopupLoad
    \/ PopupRunScript
    \/ PopupReceive

PopupSpec == PopupInit /\ [][PopupNext]_vars

----------------------------------------------------------------------------
(* One browser that honours Set-Cookie, with a popup window per login      *)
(* attempt, between the Worker and the provider.                            *)

\* The Cookie header the browser sends: its csrf-token cookie, if it has one.
CookieHeader(cookie) ==
    IF cookie = Undefined THEN Undefined ELSE Str_cookie_prefix \o cookie

\* The browser's csrf-token cookie after a response with this Set-Cookie
\* header: the value before the first semicolon is stored, and Max-Age=0
\* removes the cookie.
ApplySetCookie(cookie, setCookie) ==
    IF setCookie = Undefined THEN cookie
    ELSE LET parts == split(setCookie, ";")
             pair == trim(parts[1])
             attrs == {trim(parts[k]) : k \in 2..Len(parts)}
         IN  IF ~StartsWithAt(pair, 1, Str_cookie_prefix) THEN cookie
             ELSE IF <<"M","a","x","-","A","g","e","=","0">> \in attrs THEN Undefined
             ELSE SubSeq(pair, Len(Str_cookie_prefix) + 1, Len(pair))

\* The value of the query parameter `key` of a URL, as the provider reads
\* it (the values here hold no character that is percent-encoded).
QueryParam(url, key) ==
    LET q == IndexOf(url, <<"?">>)
        parts == split(SubSeq(url, q + 1, Len(url)), "&")
        hits == {k \in 1..Len(parts) : StartsWithAt(parts[k], 1, key \o <<"=">>)}
    IN  IF q = 0 \/ hits = {} THEN Undefined
        ELSE LET part == parts[CHOOSE k \in hits : \A j \in hits : k <= j]
             IN  SubSeq(part, Len(key) + 2, Len(part))

\* A popup window: where it is, whether it began at the initiator (a login
\* attempt), the URL it was redirected to, the cookie value that redirect
\* set, the callback it sent, whether the state of that callback was minted
\* or stored before the last page the browser had applied, and the page it
\* ended on.
NewWindow ==
    [at |-> "start", login |-> FALSE, location |-> Undefined, cookie |-> Undefined,
     sent |-> NoRequest, oldMinted |-> FALSE, oldStored |-> FALSE, page |-> NoResponse]

\* The UUIDs crypto.randomUUID() gives in the browser specification: never
\* one it gave before.
FreshChars == <<"a", "7", "e", "3">>
FreshUUIDs == {MakeUUID(FreshChars[i]) : i \in 1..MaxReq} \ minted

\* A state no authorization has minted.
ForgedState == Hex32("f")

BrowserEnvs ==
    { Env(Undefined, ClientId, Secret1, Undefined, Undefined),
      Env(<<"a",".","i","o">>, ClientId, Secret1, Undefined, Undefined),
      Env(Undefined, ClientId, Undefined, Undefined, Undefined) }

\* The popup is opened on the initiator.
BrowserAuthorize(w) ==
    /\ win[w].at = "start"
    /\ \E d \in {<<"a",".","i","o">>, <<"b",".","i","o">>}, randomUUID \in FreshUUIDs :
        /\ WorkerFetch(w, Request("GET", "/oauth", << <<Str_site_id, d>> >>,
                                  CookieHeader(jar)), randomUUID)
        /\ minted' = IF DomainRefused(env.ALLOWED_DOMAINS, d) THEN minted
                     ELSE minted \cup {randomUUID}
    /\ win' = [win EXCEPT ![w].at = "oauth", ![w].login = TRUE]
    /\ UNCHANGED <<jar, stored, old>>

\* The callback URL is opened in a popup with a state: the provider's
\* redirect (state and code from the provider, or no code when the user
\* refused), or any other navigation to it.
BrowserCallback(w, code, state, login) ==
    /\ WorkerFetch(w, Request("GET", "/callback", Query(code, state), CookieHeader(jar)),
                   NoUUID)
    /\ win' = [win EXCEPT ![w].at = "callback",
                          ![w].login = login,
                          ![w].sent = req'[w],
                          ![w].oldMinted = state \in {csrfTokenOf(u) : u \in old.minted},
                          ![w].oldStored = state \in old.stored]
    /\ UNCHANGED <<jar, minted, stored, old>>

\* The provider sends the popup back to the callback URL with the state of
\* the authorization URL it was given.
ProviderRedirect(w) ==
    /\ win[w].at = "provider"
    /\ \E code \in {AuthCode, Undefined} :
        BrowserCallback(w, code, QueryParam(win[w].location, Str_state), TRUE)

\* A new popup is sent to the callback URL by something other than the
\* provider's redirect of its own login: a replayed or forged callback.
BrowserReplay(w) ==
    /\ win[w].at = "start"
    /\ \E code \in {AuthCode, Undefined},
          state \in {csrfTokenOf(u) : u \in minted} \cup {ForgedState} :
        BrowserCallback(w, code, state, FALSE)

\* The response reaches the popup: the browser applies its Set-Cookie
\* header, and follows the redirect or shows the page.
BrowserDeliver(w) ==
    /\ win[w].at \in {"oauth", "callback"}
    /\ Release(w)
    /\ jar' = ApplySetCookie(jar, resp[w].SetCookie)
    /\ stored' = IF jar' = Undefined THEN stored ELSE stored \cup {jar'}
    /\ old' = IF resp[w].body.html THEN [minted |-> minted, stored |-> stored] ELSE old
    /\ win' = IF resp[w].status = 302
              THEN [win EXCEPT ![w].at = "provider",
                               ![w].location = resp[w].Location,
                               ![w].cookie = ApplySetCookie(Undefined, resp[w].SetCookie)]
              ELSE [win EXCEPT ![w].at = "page", ![w].page = resp[w]]
    /\ UNCHANGED minted
    /\ UNCHANGED <<matchVars, popupVars>>

\* A popup that has shown its page is closed; the next one takes its place.
BrowserClose(w) ==
    /\ win[w].at = "page"
    /\ win' = [win EXCEPT ![w] = NewWindow]
    /\ UNCHANGED <<jar, minted, stored, old>>
    /\ UNCHANGED <<workerVars, matchVars, popupVars>>

\* The cookie's Max-Age of 600 seconds runs out.
CookieExpires ==
    /\ jar # Undefined
    /\ jar' = Undefined
    /\ UNCHANGED <<win, minted, stored, old>>
    /\ UNCHANGED <<workerVars, matchVars, popupVars>>

BrowserInit ==
    /\ env \in BrowserEnvs
    /\ IdleWorker
    /\ MatcherOff
    /\ PopupOff
    /\ jar = Undefined
    /\ win = [w \in Slots |-> NewWindow]
    /\ minted = {}
    /\ stored = {}
    /\ old = [minted |-> {}, stored |-> {}]

BrowserNext ==
    \/ \E w \in Slots :
        \/ BrowserAuthorize(w)
        \/ ProviderRedirect(w)
        \/ BrowserReplay(w)
        \/ BrowserDeliver(w)
        \/ BrowserClose(w)
        \/ handleCallback_fetch(w)
        \/ handleCallback_json(w)
    \/ CookieExpires

BrowserSpec == BrowserInit /\ [][BrowserNext]_vars

----------------------------------------------------------------------------
(* What the properties below read off a request and a response. These      *)
(* are written from what a browser or the provider sees, not from the      *)
(* handlers' code.                                                         *)

Contains(s, p) == \E i \in 1..(Len(s) + 1) : StartsWithAt(s, i, p)

\* A string of exactly 32 lowercase hexadecimal digits.
IsHex32(v) == v # Undefined /\ Len(v) = 32 /\ \A i \in 1..Len(v) : v[i] \in HexDigits

\* The request's query has `key` with the non-empty value v.
HasParam(request, key, v) ==
    v # <<>> /\ \E k \in 1..Len(request.searchParams) : request.searchParams[k] = <<key, v>>

\* The request's query has a non-empty value for `key`.
HasNonEmptyParam(request, key) ==
    \E k \in 1..Len(request.searchParams) :
        request.searchParams[k][1] = key /\ request.searchParams[k][2] # <<>>

\* The Cookie header holds csrf-token=<v> for the 32-hex value v.
HeaderHoldsToken(cookie, v) ==
    cookie # Undefined /\ IsHex32(v) /\ Contains(cookie, Str_cookie_prefix \o v)

IsCallback(request) ==
    request.method = "GET" /\ request.pathname \in {"/callback", "/oauth/redirect"}

IsAuthorize(request) ==
    request.method = "GET" /\ request.pathname \in {"/oauth", "/oauth/authorize"}

Quoted(s) == <<"\"">> \o s \o <<"\"">>

\* "key":"value" as it stands in a JSON payload.
Member(key, value) == Cat(<<Quoted(key), <<":">>, Quoted(value)>>)

ErrorCodes ==
    {Code_UNSUPPORTED_DOMAIN, Code_MISCONFIGURED_CLIENT, Code_AUTH_CODE_REQUEST_FAILED,
     Code_CSRF_DETECTED, Code_TOKEN_REQUEST_FAILED, Code_MALFORMED_RESPONSE}

\* The page's payload carries "errorCode":"<code>".
ReportsCode(response, code) ==
    response.body.html /\ Contains(response.body.reply, Member(Str_errorCode, code))

\* The page's payload carries no errorCode at all.
ReportsNoCode(response) ==
    response.body.html /\ ~Contains(response.body.reply, Quoted(Str_errorCode))

IsErrorPage(response) ==
    /\ response.body.html
    /\ StartsWithAt(response.body.reply, 1,
            Cat(<<Str_authorization, Str_github, <<":">>, Str_error, <<":">>, <<"{">> >>))

IsSuccessPage(response) ==
    /\ response.body.html
    /\ StartsWithAt(response.body.reply, 1,
            Cat(<<Str_authorization, Str_github, <<":">>, Str_success, <<":">>, <<"{">> >>))

\* The attributes of a Set-Cookie header: its parts between semicolons.
CookieParts(setCookie) ==
    LET parts == split(setCookie, ";")
    IN  {trim(parts[k]) : k \in 1..Len(parts)}

\* The header sets the cookie csrf-token to `value` with Max-Age `maxAge`.
SetsCsrfCookie(setCookie, value, maxAge) ==
    /\ setCookie # Undefined
    /\ StartsWithAt(setCookie, 1, Cat(<<Str_cookie_prefix, value, <<";">> >>))
    /\ (<<"M","a","x","-","A","g","e","=">> \o maxAge) \in CookieParts(setCookie)

\* The header deletes the cookie csrf-token.
DeletesCsrfCookie(setCookie) == SetsCsrfCookie(setCookie, Str_deleted, <<"0">>)

TokenEndpoint(e) ==
    Cat(<<Str_https, IF e.GITHUB_HOSTNAME = Undefined THEN Str_github_com
                     ELSE e.GITHUB_HOSTNAME, Str_access_token_path>>)

----------------------------------------------------------------------------
(* C1 *)

\* C1: whenever the callback handler has issued a token-exchange POST for a
\* request, that request was a callback that carried a non-empty code, a
\* non-empty state, a Cookie header holding csrf-token=<32 lowercase hex>
\* with that value equal to state, and client id and client secret are both
\* configured; so for every other callback no outbound request is issued.
C1_ExchangeOnlyAfterAllChecks ==
    \A r \in Slots :
        outbound[r] # <<>> =>
            /\ IsCallback(req[r])
            /\ HasNonEmptyParam(req[r], Str_code)
            /\ \E v \in States \ {Undefined} :
                /\ HasParam(req[r], Str_state, v)
                /\ HeaderHoldsToken(req[r].cookie, v)
            /\ env.GITHUB_CLIENT_ID \notin {Undefined, <<>>}
            /\ env.GITHUB_CLIENT_SECRET \notin {Undefined, <<>>}
            /\ \A k \in 1..Len(outbound[r]) :
                /\ outbound[r][k].method = "POST"
                /\ outbound[r][k].url = TokenEndpoint(env)

\* A callback that passed every check is waiting for the provider.
C1_Witness ==
    /\ pc[1] = "fetch"
    /\ Len(outbound[1]) = 1
    /\ HasParam(req[1], Str_state, TokenA)
    /\ HeaderHoldsToken(req[1].cookie, TokenA)

----------------------------------------------------------------------------
(* C2 *)

\* The state parameter is not the token the Cookie header holds, or there is
\* no such token.
C2_Mismatch(request) ==
    ~\E v \in States \ {Undefined} :
        HasParam(request, Str_state, v) /\ HeaderHoldsToken(request.cookie, v)

\* C2 as the spec states it: every callback whose state differs from the
\* cookie's token, or that has no cookie, yields CSRF_DETECTED, whatever its
\* code, state and Cookie header are.
C2_Original ==
    \A r \in Slots :
        (pc[r] = "done" /\ IsCallback(req[r]) /\ C2_Mismatch(req[r]))
            => ReportsCode(resp[r], Code_CSRF_DETECTED)

\* C2 (amended): a callback that carries a non-empty code and a non-empty
\* state, and whose state differs from the cookie's token or that has no
\* cookie token, yields CSRF_DETECTED, whether or not the code is valid and
\* whatever the configuration; it never reaches the token exchange.
C2_MismatchYieldsCsrfDetected ==
    \A r \in Slots :
        (/\ pc[r] # "idle"
         /\ IsCallback(req[r])
         /\ HasNonEmptyParam(req[r], Str_code)
         /\ HasNonEmptyParam(req[r], Str_state)
         /\ C2_Mismatch(req[r]))
            => /\ pc[r] = "done"
               /\ ReportsCode(resp[r], Code_CSRF_DETECTED)
               /\ IsErrorPage(resp[r])
               /\ outbound[r] = <<>>

\* A callback with code and state but no Cookie header was answered.
C2_Witness ==
    /\ pc[1] = "done"
    /\ IsCallback(req[1])
    /\ HasNonEmptyParam(req[1], Str_code)
    /\ HasParam(req[1], Str_state, TokenA)
    /\ req[1].cookie = Undefined
    /\ ReportsCode(resp[1], Code_CSRF_DETECTED)

----------------------------------------------------------------------------
(* C3 *)

\* The error code of the first check that fails for a finished callback, in
\* the order: code or state missing, CSRF mismatch, credentials missing,
\* the network call failed, the body gave no JSON object (it is no JSON, or
\* it is null); Undefined when none fails. The CSRF and the credentials
\* conditions are the handler's own: the property is about their order.
C3_FirstFailing(r) ==
    IF ~HasNonEmptyParam(req[r], Str_code) \/ ~HasNonEmptyParam(req[r], Str_state)
        THEN Code_AUTH_CODE_REQUEST_FAILED
    ELSE IF CsrfMismatch(req[r]) THEN Code_CSRF_DETECTED
    ELSE IF MissingCredentials(env) THEN Code_MISCONFIGURED_CLIENT
    ELSE IF provider[r].kind = "rejected" THEN Code_TOKEN_REQUEST_FAILED
    ELSE IF provider[r].kind \in {"invalid", "null"} THEN Code_MALFORMED_RESPONSE
    ELSE Undefined

\* C3: the page a callback gets reports the error code of the first failing
\* check in the order AUTH_CODE_REQUEST_FAILED, CSRF_DETECTED,
\* MISCONFIGURED_CLIENT, TOKEN_REQUEST_FAILED, MALFORMED_RESPONSE, and no
\* error code when no check fails; a callback missing code or state gets
\* AUTH_CODE_REQUEST_FAILED even when the cookie is absent or mismatched.
C3_ChecksInFixedOrder ==
    \A r \in Slots :
        (pc[r] = "done" /\ IsCallback(req[r])) =>
            /\ resp[r].body.html
            /\ IF C3_FirstFailing(r) = Undefined
               THEN ReportsNoCode(resp[r])
               ELSE /\ ReportsCode(resp[r], C3_FirstFailing(r))
                    /\ \A c \in ErrorCodes \ {C3_FirstFailing(r)} : ~ReportsCode(resp[r], c)
                    /\ IsErrorPage(resp[r])

\* A callback that lacks its code and has no cookie either got
\* AUTH_CODE_REQUEST_FAILED.
C3_Witness ==
    /\ pc[1] = "done"
    /\ IsCallback(req[1])
    /\ ~HasNonEmptyParam(req[1], Str_code)
    /\ req[1].cookie = Undefined
    /\ ReportsCode(resp[1], Code_AUTH_CODE_REQUEST_FAILED)

----------------------------------------------------------------------------
(* C4 *)

\* C4 as the spec states it: every response the worker returns includes a
\* Set-Cookie header deleting csrf-token.
C4_Original ==
    \A r \in Slots : pc[r] = "done" => DeletesCsrfCookie(resp[r].SetCookie)

\* C4 (amended): every page of the response renderer, success or failure
\* (every response of the callback handler and every error response of the
\* initiator), has status 200 and a Set-Cookie header deleting csrf-token
\* (Max-Age=0); the only other responses are the initiator's 302 redirect,
\* whose Set-Cookie sets csrf-token with Max-Age=600 and deletes nothing, and
\* the router's 404, which has no Set-Cookie header.
C4_RendererPagesDeleteCookie ==
    \A r \in Slots :
        pc[r] = "done" =>
            /\ resp[r].body.html \/ resp[r].status \in {302, 404}
            /\ resp[r].body.html =>
                /\ resp[r].status = 200
                /\ DeletesCsrfCookie(resp[r].SetCookie)
            /\ IsCallback(req[r]) => resp[r].body.html
            /\ resp[r].status = 302 =>
                /\ resp[r].SetCookie # Undefined
                /\ ~DeletesCsrfCookie(resp[r].SetCookie)
                /\ <<"M","a","x","-","A","g","e","=","6","0","0">>
                        \in CookieParts(resp[r].SetCookie)
            /\ resp[r].status = 404 => resp[r].SetCookie = Undefined

\* A success page was returned, and it deletes the cookie.
C4_Witness ==
    /\ pc[1] = "done"
    /\ IsSuccessPage(resp[1])
    /\ DeletesCsrfCookie(resp[1].SetCookie)

----------------------------------------------------------------------------
(* C5 *)

\* The site_id domain, the empty string when absent.
C5_Domain(request) ==
    IF \E k \in 1..Len(request.searchParams) : request.searchParams[k][1] = Str_site_id
    THEN (CHOOSE pair \in {request.searchParams[k] : k \in 1..Len(request.searchParams)} :
            pair[1] = Str_site_id)[2]
    ELSE <<>>

\* The comma-separated patterns of an allow-list, blanks around them dropped.
C5_Patterns(allowed) ==
    LET parts == split(allowed, ",")
    IN  {trim(parts[k]) : k \in 1..Len(parts)}

\* The pattern fully matches the domain: it is the domain, or its first `*`
\* stands for one or more characters of the domain and the rest is equal.
GlobMatch(pattern, domain) ==
    IF \A k \in 1..Len(pattern) : pattern[k] # "*"
    THEN domain = pattern
    ELSE LET i == CHOOSE k \in 1..Len(pattern) :
                    pattern[k] = "*" /\ \A j \in 1..(k - 1) : pattern[j] # "*"
             before == SubSeq(pattern, 1, i - 1)
             after == SubSeq(pattern, i + 1, Len(pattern))
         IN  /\ Len(domain) >= Len(before) + Len(after) + 1
             /\ SubSeq(domain, 1, Len(before)) = before
             /\ SubSeq(domain, Len(domain) - Len(after) + 1, Len(domain)) = after

\* C5: the initiator answers with the UNSUPPORTED_DOMAIN error page exactly
\* when an allow-list is configured and non-empty and the site_id domain
\* (empty when absent) fully matches none of its patterns; that page has no
\* Location header and no minted csrf-token cookie. With no allow-list
\* configured every domain, empty or missing too, is accepted.
C5_UnsupportedDomainIff ==
    \A r \in Slots :
        (pc[r] = "done" /\ IsAuthorize(req[r])) =>
            LET refused ==
                    /\ env.ALLOWED_DOMAINS \notin {Undefined, <<>>}
                    /\ \A p \in C5_Patterns(env.ALLOWED_DOMAINS) :
                            ~GlobMatch(p, C5_Domain(req[r]))
            IN  /\ ReportsCode(resp[r], Code_UNSUPPORTED_DOMAIN) <=> refused
                /\ ReportsCode(resp[r], Code_UNSUPPORTED_DOMAIN) =>
                    /\ IsErrorPage(resp[r])
                    /\ resp[r].status # 302
                    /\ resp[r].Location = Undefined
                    /\ DeletesCsrfCookie(resp[r].SetCookie)
                    /\ \A u \in UUIDs :
                        ~Contains(resp[r].SetCookie, SelectSeq(u, LAMBDA c : c # "-"))

\* The allow-list *.a.io refused the domain b.io.
C5_Witness ==
    /\ pc[1] = "done"
    /\ IsAuthorize(req[1])
    /\ env.ALLOWED_DOMAINS = <<"*",".","a",".","i","o">>
    /\ C5_Domain(req[1]) = <<"b",".","i","o">>
    /\ ReportsCode(resp[1], Code_UNSUPPORTED_DOMAIN)

----------------------------------------------------------------------------
(* C6 *)

\* One or more non-empty labels without dots, joined by dots.
C6_IsLabels(x) ==
    /\ x # <<>>
    /\ x[1] # "."
    /\ x[Len(x)] # "."
    /\ \A k \in 1..(Len(x) - 1) : ~(x[k] = "." /\ x[k + 1] = ".")

\* C6: an allow-list pattern *.<suffix> accepts every domain made of one or
\* more labels followed by .<suffix>, single-label and multi-label alike, and
\* rejects the bare <suffix>; a pattern without * accepts exactly the domain
\* that is the same string. The pattern is the list entry without the blanks
\* around it.
C6_WildcardAndLiteralPatterns ==
    mPc = "matched" =>
        LET pattern == trim(mStr)
        IN  /\ (Len(pattern) >= 3 /\ pattern[1] = "*" /\ pattern[2] = ".") =>
                LET suffix == SubSeq(pattern, 3, Len(pattern))
                IN  /\ (\E n \in 1..Len(mDomain) :
                            /\ C6_IsLabels(SubSeq(mDomain, 1, n))
                            /\ SubSeq(mDomain, n + 1, Len(mDomain)) = <<".">> \o suffix)
                        => mResult
                    /\ mDomain = suffix => ~mResult
            /\ (\A k \in 1..Len(pattern) : pattern[k] # "*")
                    => (mResult <=> mDomain = pattern)

\* The pattern *.a accepted the two-label completion a.a.a.
C6_Witness ==
    /\ mPc = "matched"
    /\ mStr = <<"*",".","a">>
    /\ mDomain = <<"a",".","a",".","a">>
    /\ mResult

----------------------------------------------------------------------------
(* C7 *)

\* The name=value parts of the query of a URL that starts with `prefix`.
C7_QueryParts(url, prefix) ==
    LET parts == split(SubSeq(url, Len(prefix) + 1, Len(url)), "&")
    IN  {parts[k] : k \in 1..Len(parts)}

\* C7: when the initiator returns a 302, the state parameter of the Location
\* URL is the value of the csrf-token cookie that response sets with
\* Max-Age=600; the value is the 32 lowercase hex digits of the UUID drawn
\* for this request; and the URL is the authorization endpoint of the
\* configured hostname (github.com by default) with the configured client_id.
C7_RedirectStateIsCookieToken ==
    \A r \in Slots :
        (pc[r] = "done" /\ resp[r].status = 302) =>
            LET token == SelectSeq(uuid[r], LAMBDA c : c # "-")
                prefix ==
                    Cat(<<Str_https,
                          IF env.GITHUB_HOSTNAME = Undefined THEN Str_github_com
                          ELSE env.GITHUB_HOSTNAME,
                          Str_authorize_path>>)
                params == C7_QueryParts(resp[r].Location, prefix)
            IN  /\ IsAuthorize(req[r])
                /\ uuid[r] \in UUIDs
                /\ IsHex32(token)
                /\ StartsWithAt(resp[r].Location, 1, prefix)
                /\ Cat(<<Str_state, <<"=">>, token>>) \in params
                /\ \A p \in params :
                    StartsWithAt(p, 1, Str_state \o <<"=">>)
                        => p = Cat(<<Str_state, <<"=">>, token>>)
                /\ Cat(<<Str_client_id, <<"=">>, env.GITHUB_CLIENT_ID>>) \in params
                /\ SetsCsrfCookie(resp[r].SetCookie, token, <<"6","0","0">>)
                /\ resp[r].body = EmptyBody

\* A redirect to the configured GitHub Enterprise hostname was returned.
C7_Witness ==
    /\ pc[1] = "done"
    /\ resp[1].status = 302
    /\ env.GITHUB_HOSTNAME = EnterpriseHost
    /\ Contains(resp[1].Location, Str_state \o <<"=">> \o TokenA)

----------------------------------------------------------------------------
(* C8 *)

\* The payload of a success page that carries `token`.
C8_SuccessPayload(token) ==
    Cat(<<Str_authorization, Str_github, <<":">>, Str_success, <<":">>,
          <<"{">>, Member(Str_provider, Str_github), <<",">>,
          Member(Str_token, token), <<"}">> >>)

\* C8 as the spec states it: whenever the provider's JSON has access_token,
\* the page has state success, embeds the token verbatim and has no error
\* or errorCode field.
C8_Original ==
    \A r \in Slots :
        (/\ pc[r] = "done"
         /\ IsCallback(req[r])
         /\ provider[r].kind = "object"
         /\ provider[r].access_token # Undefined)
            => /\ IsSuccessPage(resp[r])
               /\ Contains(resp[r].body.reply, Member(Str_token, provider[r].access_token))
               /\ ~Contains(resp[r].body.reply, Quoted(Str_error))
               /\ ~Contains(resp[r].body.reply, Quoted(Str_errorCode))

\* C8 (amended): for every callback that passes all checks, if the provider's
\* JSON has access_token and its error field is absent or empty, the payload
\* is authorization:github:success:{"provider":"github","token":"<token>"}
\* with the token verbatim and no error or errorCode field; if the JSON has
\* a non-empty error as well, the page has state error and carries that
\* error, without the token.
C8_TokenEmbeddedWhenNoError ==
    \A r \in Slots :
        (/\ pc[r] = "done"
         /\ IsCallback(req[r])
         /\ provider[r].kind = "object"
         /\ provider[r].access_token # Undefined)
            => IF provider[r].error \in {Undefined, <<>>}
               THEN /\ IsSuccessPage(resp[r])
                    /\ resp[r].body.reply = C8_SuccessPayload(provider[r].access_token)
                    /\ ~Contains(resp[r].body.reply, Quoted(Str_error))
                    /\ ~Contains(resp[r].body.reply, Quoted(Str_errorCode))
               ELSE /\ IsErrorPage(resp[r])
                    /\ Contains(resp[r].body.reply, Member(Str_error, provider[r].error))
                    /\ ~Contains(resp[r].body.reply, Quoted(Str_token))

\* The provider gave a token and no error, and the success page was returned.
C8_Witness ==
    /\ pc[1] = "done"
    /\ provider[1] = ObjectJSON(AccessToken, Undefined)
    /\ resp[1].body.reply = C8_SuccessPayload(AccessToken)

----------------------------------------------------------------------------
(* C9 *)

\* The response to a finished request, had the configuration been e: the
\* same request, the same UUID, the same provider answer.
C9_ResponseUnder(e, request, randomUUID, answer) ==
    CASE Route(request) = "handleAuth" -> handleAuth(request, e, randomUUID)
      [] Route(request) = "handleCallback" ->
            IF handleCallbackChecks(request, e) # NoResponse
            THEN handleCallbackChecks(request, e)
            ELSE IF answer.kind = "rejected" THEN tokenRequestFailed
            ELSE handleCallbackResult(answer)
      [] OTHER -> NotFound

\* Every string of a response that reaches the browser.
C9_Texts(response) ==
    {response.Location, response.SetCookie, response.ContentType,
     response.body.listenFor, response.body.reply, response.body.announce}

\* C9: with a non-empty client secret configured, the response to every
\* request is the one any other non-empty secret would have given for the
\* same request and provider answer, and no string of it contains the
\* secret; the secret is in the body of the outbound POST to the token
\* endpoint, and not in its URL; and no error page contains a CSRF token
\* value (the cookie's, the state's or a minted one).
C9_SecretNeverReachesBrowser ==
    \A r \in Slots :
        /\ env.GITHUB_CLIENT_SECRET \in Secrets =>
            /\ pc[r] = "done" =>
                /\ \A other \in Secrets :
                    resp[r] = C9_ResponseUnder([env EXCEPT !.GITHUB_CLIENT_SECRET = other],
                                               req[r], uuid[r], provider[r])
                /\ \A text \in C9_Texts(resp[r]) :
                    ~Contains(text, env.GITHUB_CLIENT_SECRET)
            /\ \A k \in 1..Len(outbound[r]) :
                /\ outbound[r][k].url = TokenEndpoint(env)
                /\ ~Contains(outbound[r][k].url, env.GITHUB_CLIENT_SECRET)
                /\ Contains(outbound[r][k].body,
                            Member(Str_client_secret, env.GITHUB_CLIENT_SECRET))
        /\ (pc[r] = "done" /\ IsErrorPage(resp[r])) =>
            \A text \in C9_Texts(resp[r]), t \in {TokenA, TokenB} : ~Contains(text, t)

\* A callback went through the exchange, which carried the secret, and its
\* page was returned.
C9_Witness ==
    /\ pc[1] = "done"
    /\ env.GITHUB_CLIENT_SECRET = Secret2
    /\ Len(outbound[1]) = 1
    /\ Contains(outbound[1][1].body, Member(Str_client_secret, Secret2))
    /\ resp[1].body.html

----------------------------------------------------------------------------
(* C10 *)

\* The callback an honest browser sends: a code, and the state that is the
\* 32-hex value of its csrf-token cookie.
C10_CarriesOwnToken(request) ==
    /\ IsCallback(request)
    /\ HasNonEmptyParam(request, Str_code)
    /\ \E v \in {TokenA, TokenB} :
        /\ HasParam(request, Str_state, v)
        /\ request.cookie = Str_cookie_prefix \o v

\* C10: callbacks that carry the same cookie, state and code, handled in any
\* interleaving, get the same verdict, each on its own: both pass the CSRF
\* check or neither does, and when the state is the cookie's token each one
\* has issued its own token-exchange request, whatever the other has done
\* before; nothing is consumed, so the token is not single-use.
C10_DuplicatesValidateIndependently ==
    /\ \A r1, r2 \in Slots :
        (/\ r1 # r2
         /\ pc[r1] # "idle"
         /\ pc[r2] # "idle"
         /\ IsCallback(req[r1])
         /\ req[r1] = req[r2])
            => /\ outbound[r1] = outbound[r2]
               /\ (pc[r1] = "done" /\ ReportsCode(resp[r1], Code_CSRF_DETECTED))
                    <=> (pc[r2] = "done" /\ ReportsCode(resp[r2], Code_CSRF_DETECTED))
    /\ \A r \in Slots :
        (pc[r] # "idle" /\ C10_CarriesOwnToken(req[r]))
            => /\ Len(outbound[r]) = 1
               /\ ~ReportsCode(resp[r], Code_CSRF_DETECTED)

\* Two deliveries of one callback are both past the CSRF check, each waiting
\* on a token exchange of its own.
C10_Witness ==
    /\ req[1] = req[2]
    /\ C10_CarriesOwnToken(req[1])
    /\ pc[1] \in {"fetch", "json"}
    /\ pc[2] \in {"fetch", "json"}
    /\ Len(outbound[1]) = 1
    /\ Len(outbound[2]) = 1

----------------------------------------------------------------------------
(* C11 *)

\* The authorization endpoint of the configured provider.
AuthorizeEndpoint(e) ==
    Cat(<<Str_https, IF e.GITHUB_HOSTNAME = Undefined THEN Str_github_com
                     ELSE e.GITHUB_HOSTNAME, Str_authorize_path>>)

\* C11: a request is answered by the authorization initiator (a 302 to the
\* provider's authorization endpoint, or the UNSUPPORTED_DOMAIN or
\* MISCONFIGURED_CLIENT page, and never an outbound request) exactly when its
\* method is GET and its path is /oauth or /oauth/authorize; by the callback
\* handler (a page, never a redirect, AUTH_CODE_REQUEST_FAILED when code or
\* state is missing, or else a token exchange in progress) exactly when its
\* method is GET and its path is /callback or /oauth/redirect; every other
\* method and path gets status 404 with an empty body, no outbound request,
\* no Set-Cookie and no Location header.
C11_RouterDispatch ==
    \A r \in Slots :
        pc[r] # "idle" =>
            IF req[r].method = "GET" /\ req[r].pathname \in {"/oauth", "/oauth/authorize"}
            THEN /\ pc[r] = "done"
                 /\ outbound[r] = <<>>
                 /\ \/ /\ resp[r].status = 302
                       /\ StartsWithAt(resp[r].Location, 1, AuthorizeEndpoint(env))
                    \/ /\ resp[r].status = 200
                       /\ ReportsCode(resp[r], Code_UNSUPPORTED_DOMAIN)
                    \/ /\ resp[r].status = 200
                       /\ ReportsCode(resp[r], Code_MISCONFIGURED_CLIENT)
            ELSE IF req[r].method = "GET"
                    /\ req[r].pathname \in {"/callback", "/oauth/redirect"}
            THEN \/ /\ pc[r] \in {"fetch", "json"}
                    /\ resp[r] = NoResponse
                    /\ Len(outbound[r]) = 1
                 \/ /\ pc[r] = "done"
                    /\ resp[r].status = 200
                    /\ resp[r].body.html
                    /\ resp[r].Location = Undefined
                    /\ ~ReportsCode(resp[r], Code_UNSUPPORTED_DOMAIN)
                    /\ (~HasNonEmptyParam(req[r], Str_code)
                            \/ ~HasNonEmptyParam(req[r], Str_state))
                        => ReportsCode(resp[r], Code_AUTH_CODE_REQUEST_FAILED)
            ELSE /\ pc[r] = "done"
                 /\ resp[r].status = 404
                 /\ resp[r].body = EmptyBody
                 /\ resp[r].ContentType = Undefined
                 /\ resp[r].Location = Undefined
                 /\ resp[r].SetCookie = Undefined
                 /\ outbound[r] = <<>>

\* A POST to /callback that carries a good code, state and cookie got the
\* 404 and no token exchange.
C11_Witness ==
    /\ pc[1] = "done"
    /\ req[1].method = "POST"
    /\ req[1].pathname = "/callback"
    /\ HasParam(req[1], Str_state, TokenA)
    /\ HeaderHoldsToken(req[1].cookie, TokenA)
    /\ resp[1].status = 404
    /\ outbound[1] = <<>>

----------------------------------------------------------------------------
(* C13 *)

\* 'repository_id', the parameter by which the provider's web application
\* flow restricts a user access token to one repository.
C13_repository_id ==
    <<"r","e","p","o","s","i","t","o","r","y","_","i","d">>

\* C13: when GITHUB_REPO_ID is configured, the token-exchange request sent to
\* the provider carries the configured repository id; when it is not
\* configured, the request carries no repository restriction.
C13_RepoIdScopesToken ==
    \A r \in Slots :
        \A k \in 1..Len(outbound[r]) :
            IF env.GITHUB_REPO_ID # Undefined
            THEN \/ Contains(outbound[r][k].body, env.GITHUB_REPO_ID)
                 \/ Contains(outbound[r][k].url, env.GITHUB_REPO_ID)
            ELSE /\ ~Contains(outbound[r][k].body, C13_repository_id)
                 /\ ~Contains(outbound[r][k].url, C13_repository_id)

----------------------------------------------------------------------------
(* C14 *)

\* C14: a callback has issued at most one outbound request at every point of
\* its handling, and that one is the token-exchange POST; when the call
\* failed with no response obtained, the handler has returned the
\* TOKEN_REQUEST_FAILED page at once, with still that one request issued.
C14_AtMostOneExchange ==
    \A r \in Slots :
        /\ Len(outbound[r]) <= 1
        /\ \A k \in 1..Len(outbound[r]) :
            /\ outbound[r][k].method = "POST"
            /\ outbound[r][k].url = TokenEndpoint(env)
        /\ pc[r] \in {"fetch", "json"} => Len(outbound[r]) = 1
        /\ provider[r].kind = "rejected" =>
            /\ pc[r] = "done"
            /\ IsErrorPage(resp[r])
            /\ ReportsCode(resp[r], Code_TOKEN_REQUEST_FAILED)
            /\ Len(outbound[r]) = 1

\* The token exchange of a callback failed and the callback was answered.
C14_Witness ==
    /\ pc[1] = "done"
    /\ IsCallback(req[1])
    /\ provider[1].kind = "rejected"
    /\ Len(outbound[1]) = 1
    /\ ReportsCode(resp[1], Code_TOKEN_REQUEST_FAILED)

----------------------------------------------------------------------------
(* C18 *)

\* The payload has the property `key` with a non-empty string value.
C18_HasNonEmpty(response, key) ==
    /\ Contains(response.body.reply, Quoted(key) \o <<":", "\"">>)
    /\ ~Contains(response.body.reply, Member(key, <<>>))

\* C18: every page is exactly one of the two outcomes: a page with state
\* success carries a non-empty token, a page with state error carries a
\* non-empty error; so no parsable provider response, one with neither
\* access_token nor error or with an empty error included, gives a success
\* page without a token.
C18_ExactlyOneOutcome ==
    \A r \in Slots :
        (pc[r] = "done" /\ resp[r].body.html) =>
            /\ IsSuccessPage(resp[r]) # IsErrorPage(resp[r])
            /\ IsSuccessPage(resp[r]) => C18_HasNonEmpty(resp[r], Str_token)
            /\ IsErrorPage(resp[r]) => C18_HasNonEmpty(resp[r], Str_error)

----------------------------------------------------------------------------
(* C15 *)

\* What holds of a request at every moment of its handling: it is answered
\* in the step that receives it unless it is a callback that issued the
\* token exchange; such a callback has no response while the provider call
\* is pending, and a success or an error page once it has settled.
C15_Handling(r) ==
    /\ pc[r] \in {"idle", "fetch", "json", "done"}
    /\ pc[r] \in {"fetch", "json"} =>
        /\ IsCallback(req[r])
        /\ Len(outbound[r]) = 1
        /\ resp[r] = NoResponse
    /\ pc[r] = "done" =>
        /\ resp[r] # NoResponse
        /\ resp[r].status \in {200, 302, 404}
        /\ outbound[r] = <<>> => provider[r] = NoProvider
        /\ outbound[r] # <<>> =>
            /\ provider[r].kind \in {"rejected", "invalid", "null", "object"}
            /\ IsSuccessPage(resp[r]) # IsErrorPage(resp[r])
    /\ (IsAuthorize(req[r]) \/ (pc[r] # "idle" /\ outbound[r] = <<>>)) => pc[r] = "done"

\* A step gives a request at most one response: the response it has is the
\* one it keeps until the slot is released.
C15_OneResponse(r) ==
    resp[r] # NoResponse => (resp'[r] = resp[r] \/ (pc'[r] = "idle" /\ resp'[r] = NoResponse))

\* C15: if the provider call of every callback eventually resolves or fails,
\* every request eventually receives exactly one response: authorize
\* requests and callbacks rejected before the exchange are answered without
\* waiting on the provider; a callback that reached the exchange stays
\* without a response for as long as the provider call is pending, and is
\* then answered with a success or an error page.
C15_EveryRequestAnswered ==
    /\ \A r \in Slots : (pc[r] # "idle") ~> (pc[r] = "done")
    /\ [](\A r \in Slots : C15_Handling(r))
    /\ [][\A r \in Slots : C15_OneResponse(r)]_vars

\* One callback has been answered after its exchange while another is
\* still waiting on the provider.
C15_Witness ==
    /\ pc[1] = "done"
    /\ Len(outbound[1]) = 1
    /\ provider[1].kind = "object"
    /\ resp[1].body.html
    /\ pc[2] \in {"fetch", "json"}
    /\ resp[2] = NoResponse

----------------------------------------------------------------------------
(* C16 *)

\* The message is an authorization message: authorization:github:<state>:...
C16_IsAuthorization(message) ==
    StartsWithAt(message, 1, Cat(<<Str_authorization, Str_github, <<":">> >>))

\* C16: every authorization:<provider>:<state>:<payload> message the page
\* posts is posted while handling a received message whose data is
\* authorizing:<provider>, so never before one, and its target origin is
\* that message's origin, never '*'; the only message posted for '*' is the
\* first one, authorizing:<provider>, which is no authorization message and
\* holds neither the token nor an error.
C16_ReplyOnlyToAuthorizing ==
    \A k \in 1..Len(posted) :
        IF posted[k].targetOrigin = Star
        THEN /\ k = 1
             /\ posted[k].inReplyTo = 0
             /\ posted[k].data = Str_authorizing \o Str_github
             /\ ~C16_IsAuthorization(posted[k].data)
             /\ ~Contains(posted[k].data, AccessToken)
             /\ ~Contains(posted[k].data, Str_token)
        ELSE /\ C16_IsAuthorization(posted[k].data)
             /\ posted[k].inReplyTo \in 1..Len(events)
             /\ events[posted[k].inReplyTo].data = Str_authorizing \o Str_github
             /\ events[posted[k].inReplyTo].origin = posted[k].targetOrigin
             /\ \A j \in 1..(k - 1) : posted[j].inReplyTo < posted[k].inReplyTo

\* The success page answered the opener's authorizing:github with the token,
\* for the opener's origin, after another window's message got the answer
\* for that window's origin.
C16_Witness ==
    /\ Len(events) = 2
    /\ Len(posted) = 3
    /\ opener = CmsOrigin
    /\ posted[2].targetOrigin = OtherOrigin
    /\ posted[3].targetOrigin = CmsOrigin
    /\ posted[3].data = C8_SuccessPayload(AccessToken)

----------------------------------------------------------------------------
(* C19 *)

\* The 32 hex digits of a UUID, read off its text.
C19_Digits(id) == SelectSeq(id, LAMBDA c : c # "-")

\* Popup w is in an honest flow: it began at the initiator, was redirected,
\* the provider sent it back with a non-empty code, and the Cookie header of
\* the callback is the cookie the redirect set (no other response changed
\* the cookie and it did not expire in between).
C19_Honest(w) ==
    /\ win[w].at = "callback"
    /\ win[w].login
    /\ pc[w] # "idle"
    /\ HasNonEmptyParam(req[w], Str_code)
    /\ win[w].cookie # Undefined
    /\ req[w].cookie = Str_cookie_prefix \o win[w].cookie

\* C19: in an honest flow the cookie the browser stored from the 302 is the
\* 32 hex digits of a UUID the initiator minted, the callback carries the
\* same value as its state, the handler extracts that same value from the
\* Cookie header, and (with credentials configured) the callback reaches
\* the token exchange instead of a CSRF_DETECTED page.
C19_RoundTrip ==
    \A w \in Slots :
        C19_Honest(w) =>
            /\ \E u \in minted : C19_Digits(u) = win[w].cookie
            /\ HasParam(req[w], Str_state, win[w].cookie)
            /\ cookieToken(req[w].cookie) = win[w].cookie
            /\ (Truthy(env.GITHUB_CLIENT_ID) /\ Truthy(env.GITHUB_CLIENT_SECRET)) =>
                    /\ Len(outbound[w]) = 1
                    /\ pc[w] = "done" => ~ReportsCode(resp[w], Code_CSRF_DETECTED)

\* An honest flow whose callback got a token, while another popup had begun
\* a login of its own before.
C19_Witness ==
    \E w \in Slots :
        /\ C19_Honest(w)
        /\ pc[w] = "done"
        /\ IsSuccessPage(resp[w])
        /\ Cardinality(minted) = 2

----------------------------------------------------------------------------
(* C20 *)

\* Popup w has sent a callback, and the response to it is known.
CallbackAnswered(w) ==
    /\ win[w].sent # NoRequest
    /\ \/ win[w].at = "page"
       \/ win[w].at = "callback" /\ pc[w] = "done"

CallbackAnswer(w) == IF win[w].at = "page" THEN win[w].page ELSE resp[w]

\* The callback of popup w passed the CSRF check: the handler went on to
\* the token exchange, or to the check of the credentials that follows.
PassedCsrf(w) ==
    /\ win[w].sent # NoRequest
    /\ \/ win[w].at = "callback" /\ Len(outbound[w]) = 1
       \/ /\ CallbackAnswered(w)
          /\ ~ReportsCode(CallbackAnswer(w), Code_AUTH_CODE_REQUEST_FAILED)
          /\ ~ReportsCode(CallbackAnswer(w), Code_CSRF_DETECTED)

\* The callback of popup w's own login, with the provider's code, went out
\* when the browser's cookie was no longer the one w's redirect had set.
C20_CookieGone(w) ==
    /\ win[w].sent # NoRequest
    /\ win[w].login
    /\ HasNonEmptyParam(win[w].sent, Str_code)
    /\ win[w].sent.cookie # Str_cookie_prefix \o win[w].cookie

----------------------------------------------------------------------------
(* C17 *)

\* The statement as the specification has it: a callback whose state was
\* minted before a page the browser had applied by the time it was sent is
\* answered with CSRF_DETECTED and issues no token exchange.
C17_MintedBeforePageIsRefused ==
    \A w \in Slots :
        (win[w].sent # NoRequest /\ win[w].oldMinted) =>
            /\ Len(outbound[w]) = 0
            /\ CallbackAnswered(w)
            /\ ReportsCode(CallbackAnswer(w), Code_CSRF_DETECTED)

\* C17: once the browser has applied a page of the renderer, a callback it
\* sends later with a state whose cookie it had stored before that page
\* issues no token exchange and is answered with CSRF_DETECTED when it
\* carries a code and with AUTH_CODE_REQUEST_FAILED when it carries none,
\* whatever authorize and callback requests came in between.
C17_StoredBeforePageIsRefused ==
    \A w \in Slots :
        (win[w].sent # NoRequest /\ win[w].oldStored) =>
            /\ Len(outbound[w]) = 0
            /\ ~PassedCsrf(w)
            /\ CallbackAnswered(w)
            /\ ReportsCode(CallbackAnswer(w),
                           IF HasNonEmptyParam(win[w].sent, Str_code)
                           THEN Code_CSRF_DETECTED
                           ELSE Code_AUTH_CODE_REQUEST_FAILED)

\* A callback replays, with a code, the state of a login that has ended on
\* a page; another login has stored its cookie in between; the browser has
\* the CSRF_DETECTED page for it.
C17_Witness ==
    \E w \in Slots :
        /\ win[w].at = "page"
        /\ ~win[w].login
        /\ win[w].oldStored
        /\ HasNonEmptyParam(win[w].sent, Str_code)
        /\ win[w].sent.cookie # Undefined
        /\ ReportsCode(win[w].page, Code_CSRF_DETECTED)

----------------------------------------------------------------------------
(* C12 *)

\* The state of the login attempt of a popup window. A popup that was sent
\* to the callback URL without having begun at the initiator is no login
\* attempt.
C12_Phase(x) ==
    IF x.at \in {"start", "oauth"} THEN "START"
    ELSE IF ~x.login THEN "NO_LOGIN"
    ELSE IF x.at = "provider" THEN "AUTHORIZING"
    ELSE IF x.at = "callback" THEN "CALLBACK_RECEIVED"
    ELSE IF IsSuccessPage(x.page) THEN "SUCCESS"
    ELSE IF IsErrorPage(x.page) THEN "ERROR"
    ELSE "NONE"

C12_Chain ==
    { <<"START", "START">>,
      <<"START", "AUTHORIZING">>,
      <<"AUTHORIZING", "CALLBACK_RECEIVED">>,
      <<"CALLBACK_RECEIVED", "SUCCESS">>,
      <<"CALLBACK_RECEIVED", "ERROR">> }

\* The page reports one of the six error codes.
C12_ReportsEnumerated(response) == \E c \in ErrorCodes : ReportsCode(response, c)

\* The page passes on the error of the provider, with no error code.
C12_PassesOn(response) ==
    /\ ReportsNoCode(response)
    /\ Contains(response.body.reply, Member(Str_error, ProviderError))

\* The popup in slot w is closed in this step: its attempt is over, and the
\* slot is another popup's.
C12_Closed(w) == win[w].at = "page" /\ win'[w] = NewWindow

\* In this step the browser stores a cookie value.
C12_CookieSet == jar' # jar /\ jar' # Undefined

C12_Enters(w) ==
    C12_Phase(win[w]) # "AUTHORIZING" /\ C12_Phase(win'[w]) = "AUTHORIZING"

\* What every step keeps, apart from the transitions it may make: a popup
\* on a page stays on it until it is closed, with no request of its own at
\* the Worker; and the cookie is set in exactly the steps in which an
\* attempt enters AUTHORIZING, to the token of that attempt.
C12_TerminalAndCookie ==
    /\ \A w \in Slots :
        win[w].at = "page" =>
            /\ win'[w] = win[w] \/ C12_Closed(w)
            /\ pc[w] = "idle" /\ pc'[w] = "idle"
    /\ C12_CookieSet <=> \E w \in Slots : C12_Enters(w)
    /\ \A w \in Slots :
        C12_Enters(w) => IsHex32(jar') /\ win'[w].cookie = jar'

\* The statement as the specification has it: the only transitions are
\* those of the chain, and every ERROR carries one of the six codes.
C12_OnlyTheChain ==
    [][ /\ C12_TerminalAndCookie
        /\ \A w \in Slots :
            (win'[w] # win[w] /\ win'[w].login /\ ~C12_Closed(w)) =>
                /\ <<C12_Phase(win[w]), C12_Phase(win'[w])>> \in C12_Chain
                /\ C12_Phase(win'[w]) = "ERROR" => C12_ReportsEnumerated(win'[w].page)
      ]_vars

\* C12: a login attempt goes START, AUTHORIZING, CALLBACK_RECEIVED, then
\* SUCCESS or ERROR, or from START straight to ERROR when the initiator
\* refuses it with UNSUPPORTED_DOMAIN or MISCONFIGURED_CLIENT. SUCCESS and
\* ERROR are left by no transition and nothing is retried. Every ERROR is a
\* page of the renderer with one of the six error codes or, after the token
\* exchange, with the provider's own error and no code. The cookie is set
\* exactly on entering AUTHORIZING.
C12_LoginStateMachine ==
    [][ /\ C12_TerminalAndCookie
        /\ \A w \in Slots :
            (win'[w] # win[w] /\ win'[w].login /\ ~C12_Closed(w)) =>
                LET a == C12_Phase(win[w])
                    b == C12_Phase(win'[w])
                IN  /\ \/ <<a, b>> \in C12_Chain
                       \/ /\ a = "START" /\ b = "ERROR"
                          /\ \/ ReportsCode(win'[w].page, Code_UNSUPPORTED_DOMAIN)
                             \/ ReportsCode(win'[w].page, Code_MISCONFIGURED_CLIENT)
                    /\ b = "ERROR" =>
                        \/ C12_ReportsEnumerated(win'[w].page)
                        \/ a = "CALLBACK_RECEIVED" /\ C12_PassesOn(win'[w].page)
      ]_vars

\* One login has gone all the way to SUCCESS and the page has deleted the
\* cookie, and another was refused by the initiator and went from START to
\* ERROR.
C12_Witness ==
    \E w1, w2 \in Slots :
        /\ win[w1].login /\ win[w1].sent # NoRequest
        /\ C12_Phase(win[w1]) = "SUCCESS"
        /\ win[w1].cookie \in stored
        /\ jar = Undefined
        /\ win[w2].login /\ win[w2].sent = NoRequest
        /\ C12_Phase(win[w2]) = "ERROR"

=============================================================================
